---- MODULE Spec2Model ----
(***************************************************************************)
(* Schema Registry lifecycle engine (tools/schema_purger.py), health       *)
(* auditor (tools/schema_checker.py), inspector                            *)
(* (tools/confluent_inspector.py) and schema analyzer                      *)
(* (tools/schema_analyzer.py), together with the REST surface of the       *)
(* schema registry they talk to.                                           *)
(*                                                                         *)
(* A subject name is a string, modelled as a sequence of characters.  An   *)
(* optional argument (Python None / a value) is a sequence of length 0 / 1.*)
(* Every HTTP request has one of three outcomes: "ok" (the registry        *)
(* processes the request and answers by its own rules, 200 or 404), "err"  *)
(* (the registry answers HTTP 500 and changes nothing) and "exc" (requests *)
(* raises: timeout or connection error, nothing changes).                  *)
(*                                                                         *)
(* A step of the engine is one HTTP request together with the code that    *)
(* runs up to the next request: the registry is shared, and between two    *)
(* requests of one call another client may change it.                      *)
(***************************************************************************)
EXTENDS Integers, Sequences, FiniteSets, TLC

VARIABLES
    reg,        \* registry: subject -> what it holds under that name
    order,      \* the order in which the registry lists its subjects
    pc,         \* where the engine is: "idle" or inside a loop
    call,       \* the public operation in progress or last completed
    subjects,   \* parameter `subjects` of the running bulk_*_delete
    queue,      \* what is left of the list the running loop iterates over
    results,    \* local `results` of bulk_*_delete
    filtered,   \* local `filtered` of get_subjects_by_filter
    dels,       \* DELETE requests issued by the current call, in order, each
                \* with the response it got
    clean,      \* every request of the current call had outcome "ok"
    reg0,       \* registry state when the current call started
    ret,        \* what the last completed call returned (or raised)
    prev,       \* ret and clean of the call before the current one, kept when
                \* the current call repeats it (same operation, same arguments)
    all_listed, \* purge_soft_deleted: its local `soft_deleted`, the listing
                \* with deleted=true
    versions_resp,  \* get_subject_details: the response to its first request,
                \* held while the second is sent
    anon,       \* anonymous subjects listed before / after the named ones
    issues,     \* SchemaHealthChecker.issues
    warnings,   \* SchemaHealthChecker.warnings
    cpc,        \* check_all: the check it runs next or the loop it is in, or
                \* "idle"
    checks,     \* check_all: results["checks"] so far
    report,     \* what the last completed check_all returned
    runs,       \* check_all calls made on this SchemaHealthChecker
    earlier,    \* what the check_all before the current one returned, on
                \* the same SchemaHealthChecker
    scan,       \* the locals of the check that is running: the subjects left
                \* to visit, what it has found, the references left to look
                \* up, and how many of its requests for a subject have failed
    last_response,  \* registry access layer: the response its last request got
    analysis    \* schema analyzer: the last call, its argument and its result

auditor == <<anon, issues, warnings, cpc, checks, report, runs, earlier, scan>>

purger == <<pc, call, subjects, queue, results, filtered, dels, clean, reg0,
            ret, prev, all_listed, versions_resp>>

vars == <<reg, order, purger, auditor, last_response, analysis>>

-----------------------------------------------------------------------------
(* Bounds and universe *)

MaxBulk == 2            \* longest input list of a bulk operation
MaxFaulty == 1          \* subjects whose request fails within one check
MaxUnion == 2           \* members of a union type
MaxFields == 2          \* fields of a record schema
MaxRuns == 2            \* check_all calls on one SchemaHealthChecker
MaxVersionDeletes == 1  \* versions deleted one by one that a registry holds

OrdersValue == <<"o", "v">>
OrdersKey == <<"o", "k">>
UsersValue == <<"u", "v">>
Subjects == {OrdersValue, OrdersKey, UsersValue}

\* version count of each subject while it exists in the registry
InitVersions == [s \in Subjects |->
                    IF s = OrdersValue THEN 3 ELSE IF s = OrdersKey THEN 2 ELSE 5]

\* the version numbers a caller asks for: those registered and one beyond
VersionNumbers == 1..(InitVersions[UsersValue] + 1)

Outcomes == {"ok", "err", "exc"}

Patterns == {<<>>, <<"o">>, <<"v">>, <<"o", "v">>, <<"k", "o">>}
OptPatterns == {<<>>} \cup {<<p>> : p \in Patterns}
OptMinVersions == {<<>>, <<0>>, <<3>>, <<4>>}

SeqsUpTo(S, n) == UNION {[1..k -> S] : k \in 0..n}

\* listing orders of the registry: insertion order and its reverse
Orders == {<<OrdersValue, OrdersKey, UsersValue>>,
           <<UsersValue, OrdersKey, OrdersValue>>}

Range(f) == {f[i] : i \in DOMAIN f}

-----------------------------------------------------------------------------
(* The registry's REST surface *)

VersionList(n) == [i \in 1..n |-> i]

\* the JSON object the registry sends with an error status
ErrorBody(status) == [error_code |-> status, message |-> "error"]

Http500(r) == [exc |-> FALSE, status |-> 500, body |-> ErrorBody(500), reg |-> r]
HttpRaise(r) == [exc |-> TRUE, status |-> 0, body |-> <<>>, reg |-> r]
Http404(r) == [exc |-> FALSE, status |-> 404, body |-> ErrorBody(404), reg |-> r]
Http200(r, b) == [exc |-> FALSE, status |-> 200, body |-> b, reg |-> r]

Answer(o, r, resp) ==
    IF o = "ok" THEN resp ELSE IF o = "err" THEN Http500(r) ELSE HttpRaise(r)

\* what the registry holds of a subject: its state, how many versions, the
\* length of the latest schema text, its own compatibility level if it has
\* one, the subjects its latest version refers to, and the version numbers
\* that were deleted one by one (version numbers are never given again)
Absent == [st |-> "absent", nver |-> 0, size |-> 0, compat |-> "unset", refs |-> <<>>,
           gone |-> {}]
Holding(st, nver, size, compat, refs) ==
    [st |-> st, nver |-> nver, size |-> size, compat |-> compat, refs |-> refs,
     gone |-> {}]

\* the highest version number the subject was ever given
Registered(x) == x.nver + Cardinality(x.gone)

\* the version numbers of a subject, in increasing order
VersionsOf(x) ==
    IF x.gone = {}
    THEN VersionList(x.nver)
    ELSE SelectSeq(VersionList(Registered(x)), LAMBDA v : v \notin x.gone)

\* the number of the latest version
LatestVersion(x) ==
    LET versions == VersionsOf(x)
    IN  IF versions = <<>> THEN 0 ELSE versions[Len(versions)]

\* versions deleted one by one, over the whole registry
VersionDeletes(r) ==
    LET RECURSIVE Sum(_)
        Sum(S) == IF S = {} THEN 0
                  ELSE LET s == CHOOSE t \in S : TRUE
                       IN  Cardinality(r[s].gone) + Sum(S \ {s})
    IN  Sum(DOMAIN r)

\* GET /subjects[?deleted=true]
ListedSubjects(r, ord, deleted) ==
    SelectSeq(ord, LAMBDA s : r[s].st = "active" \/ (deleted /\ r[s].st = "soft"))

GetSubjects(r, ord, deleted, o) ==
    Answer(o, r, Http200(r, ListedSubjects(r, ord, deleted)))

\* GET /subjects/{subject}/versions
GetVersions(r, s, o) ==
    Answer(o, r, IF r[s].st = "active"
                 THEN Http200(r, VersionsOf(r[s]))
                 ELSE Http404(r))

\* GET /subjects/{subject}/versions/latest
GetLatest(r, s, o) ==
    Answer(o, r, IF r[s].st = "active"
                 THEN Http200(r, [version |-> LatestVersion(r[s]), schema |-> r[s].size,
                                  references |-> r[s].refs])
                 ELSE Http404(r))

\* GET /config
GetGlobalConfig(r, o) ==
    Answer(o, r, Http200(r, [compatibilityLevel |-> "BACKWARD"]))

\* GET /config/{subject}: 404 when the subject has no level of its own
GetConfig(r, s, o) ==
    Answer(o, r, IF r[s].st = "active" /\ r[s].compat # "unset"
                 THEN Http200(r, [compatibilityLevel |-> r[s].compat])
                 ELSE Http404(r))

\* DELETE /subjects/{subject}[?permanent=true]
DeleteSubject(r, s, permanent, o) ==
    Answer(o, r,
        IF ~permanent
        THEN IF r[s].st = "active"
             THEN Http200([r EXCEPT ![s].st = "soft"], VersionsOf(r[s]))
             ELSE Http404(r)
        ELSE IF r[s].st = "soft"
             THEN Http200([r EXCEPT ![s] = Absent],
                          VersionsOf(r[s]))
             ELSE Http404(r))

\* DELETE /subjects/{subject}/versions/{version}: the version leaves the
\* subject's versions; a subject left with no version is listed no more
DeleteVersion(r, s, v, o) ==
    Answer(o, r,
        IF r[s].st = "active" /\ v \in Range(VersionsOf(r[s]))
        THEN Http200([r EXCEPT ![s].nver = @ - 1,
                               ![s].gone = @ \cup {v},
                               ![s].st = IF r[s].nver = 1 THEN "soft" ELSE @],
                     v)
        ELSE Http404(r))

-----------------------------------------------------------------------------
(* SchemaPurger: the single-subject operations *)

HttpError(status) == <<"HTTP", status>>
Raised == <<"exception">>
NoError == <<>>

Succeeded(s, versions, verb) ==
    [success |-> TRUE, subject |-> s, deleted_versions |-> versions,
     message |-> <<verb, Len(versions)>>, error |-> NoError]

Failed(s, err) ==
    [success |-> FALSE, subject |-> s, deleted_versions |-> <<>>,
     message |-> <<>>, error |-> err]

Returned(v) == [kind |-> "return", value |-> v]
Raise(msg) == [kind |-> "raise", value |-> msg]
NoRet == [kind |-> "none", value |-> <<>>]

\* no request made yet
NoResponse == [exc |-> FALSE, status |-> 0]

\* what the caller of requests.get sees of a response
Received(resp) == [exc |-> resp.exc, status |-> resp.status]

\* a response as the code holds it: raised or not, status code, json()
Kept(resp) == [exc |-> resp.exc, status |-> resp.status, body |-> resp.body]
NoAnswer == [exc |-> FALSE, status |-> 0, body |-> <<>>]

get_all_subjects(r, ord, include_deleted, o) ==
    LET response == GetSubjects(r, ord, include_deleted, o)
    IN  IF response.exc \/ response.status >= 400
        THEN Raise(<<"Failed to get subjects">>)
        ELSE Returned(response.body)

\* one entry of the log of DELETE requests: what was asked, what came back
Request(s, permanent, resp) ==
    [subject |-> s, permanent |-> permanent, exc |-> resp.exc, status |-> resp.status]

\* soft_delete_subject with the status code never looked at
soft_delete_subject_AnyStatus(r, s, o) ==
    LET response == DeleteSubject(r, s, FALSE, o)
        issued == <<Request(s, FALSE, response)>>
    IN  IF response.exc
        THEN [ret |-> Returned(Failed(s, Raised)), reg |-> response.reg,
              dels |-> issued]
        ELSE [ret |-> Returned(Succeeded(s, IF response.status = 200
                                             THEN response.body ELSE <<>>,
                                         "Soft-deleted")),
              reg |-> response.reg, dels |-> issued]

soft_delete_subject(r, s, o) ==
    LET response == DeleteSubject(r, s, FALSE, o)
        issued == <<Request(s, FALSE, response)>>
    IN  IF response.exc
        THEN [ret |-> Returned(Failed(s, Raised)), reg |-> response.reg,
              dels |-> issued]
        ELSE IF response.status = 200
        THEN [ret |-> Returned(Succeeded(s, response.body, "Soft-deleted")),
              reg |-> response.reg, dels |-> issued]
        ELSE [ret |-> Returned(Failed(s, HttpError(response.status))),
              reg |-> response.reg, dels |-> issued]

\* one entry of the log for the DELETE of one version
VersionRequest(s, v, resp) ==
    [subject |-> s, permanent |-> FALSE, version |-> v, exc |-> resp.exc,
     status |-> resp.status]

delete_subject_version(r, s, v, o) ==
    LET response == DeleteVersion(r, s, v, o)
        issued == <<VersionRequest(s, v, response)>>
    IN  IF response.exc
        THEN [ret |-> Returned([success |-> FALSE, subject |-> s, version |-> v,
                                error |-> Raised]),
              reg |-> response.reg, dels |-> issued]
        ELSE IF response.status = 200
        THEN [ret |-> Returned([success |-> TRUE, subject |-> s, version |-> v,
                                message |-> <<"Deleted version", v>>]),
              reg |-> response.reg, dels |-> issued]
        ELSE [ret |-> Returned([success |-> FALSE, subject |-> s, version |-> v,
                                error |-> HttpError(response.status)]),
              reg |-> response.reg, dels |-> issued]

\* the first request sent with permanent=true
HardDeleteFirst_Permanent(r, subject, o) == DeleteSubject(r, subject, TRUE, o)

\* the two requests of hard_delete_subject: DELETE /subjects/{subject}, ...
HardDeleteFirst(r, subject, o) == DeleteSubject(r, subject, FALSE, o)

\* ... then DELETE /subjects/{subject}?permanent=true
HardDeleteSecond(r, subject, o) == DeleteSubject(r, subject, TRUE, o)

\* hard_delete_subject with the status code never looked at
hard_delete_subject_AnyStatus(subject, soft_delete_resp, response) ==
    IF soft_delete_resp.exc \/ response.exc
    THEN Failed(subject, Raised)
    ELSE Succeeded(subject, IF response.status = 200 THEN response.body ELSE <<>>,
                   "Permanently deleted")

\* hard_delete_subject giving up when the soft delete is not answered 200
hard_delete_subject_ChecksSoft(subject, soft_delete_resp, response) ==
    IF soft_delete_resp.exc \/ response.exc
    THEN Failed(subject, Raised)
    ELSE IF soft_delete_resp.status # 200
    THEN Failed(subject, HttpError(soft_delete_resp.status))
    ELSE IF response.status = 200
    THEN Succeeded(subject, response.body, "Permanently deleted")
    ELSE Failed(subject, HttpError(response.status))

\* hard_delete_subject taking a 404 for a success
hard_delete_subject_Tolerant(subject, soft_delete_resp, response) ==
    IF soft_delete_resp.exc \/ response.exc
    THEN Failed(subject, Raised)
    ELSE IF response.status = 200
    THEN Succeeded(subject, response.body, "Permanently deleted")
    ELSE IF response.status = 404
    THEN Succeeded(subject, <<>>, "Permanently deleted")
    ELSE Failed(subject, HttpError(response.status))

\* what hard_delete_subject returns, given what its two requests got.  A
\* request that raises ends the call: when soft_delete_resp is an exception
\* no second request was sent and `response` is not looked at.
hard_delete_subject(subject, soft_delete_resp, response) ==
    IF soft_delete_resp.exc \/ response.exc
    THEN Failed(subject, Raised)
    ELSE IF response.status = 200
    THEN Succeeded(subject, response.body, "Permanently deleted")
    ELSE Failed(subject, HttpError(response.status))

\* dict.get(key, default)
DictGet(d, key, default) == IF key \in DOMAIN d THEN d[key] ELSE default

\* what get_subject_details returns, given what its two requests got (first
\* the version list, then the latest version); when the first raises no
\* second request was sent
get_subject_details(subject, first, latest_resp) ==
    LET versions == IF first.status = 200 THEN first.body ELSE <<>>
        latest == IF latest_resp.status = 200 THEN latest_resp.body ELSE <<>>
    IN  IF first.exc \/ latest_resp.exc
        THEN [subject |-> subject, error |-> Raised]
        ELSE [subject |-> subject, versions |-> versions,
              version_count |-> Len(versions),
              latest_version |-> DictGet(latest, "version", "None")]

\* Python's `pattern in subject` on strings
IsSubstring(p, s) ==
    \E i \in 0..(Len(s) - Len(p)) : SubSeq(s, i + 1, i + Len(p)) = p

\* the two filters joined by "or"
FilterInclude_Either(details, s, min_versions, pattern) ==
    LET by_versions == min_versions # <<>>
                       /\ ~(DictGet(details, "version_count", 0) < min_versions[1])
        by_pattern == pattern # <<>> /\ pattern[1] # <<>>
                      /\ IsSubstring(pattern[1], s)
    IN  by_versions \/ by_pattern \/ (min_versions = <<>> /\ pattern = <<>>)

\* one iteration of the loop of get_subjects_by_filter: is `subject` kept?
\* `details` is what get_subject_details returned, which is called when
\* min_versions is given.
FilterInclude(details, s, min_versions, pattern) ==
    LET by_versions == IF min_versions # <<>>
                       THEN ~(DictGet(details, "version_count", 0) < min_versions[1])
                       ELSE TRUE
        by_pattern == ~(pattern # <<>> /\ pattern[1] # <<>>
                        /\ ~IsSubstring(pattern[1], s))
    IN  by_versions /\ by_pattern

-----------------------------------------------------------------------------
(* ConfluentInspector (tools/confluent_inspector.py): the two requests it  *)
(* sends to the schema registry.                                           *)

\* Python's None
None == [none |-> TRUE]

\* ConfluentInspector._get_schema(subject)
ConfluentInspector_get_schema(r, s, o) ==
    LET response == GetLatest(r, s, o)
    IN  IF response.exc THEN None
        ELSE IF response.status = 200
        THEN [subject |-> s, version |-> response.body.version,
              schema |-> response.body.schema]
        ELSE IF response.status = 404 THEN None
        ELSE None

\* ConfluentInspector.get_all_subjects()
ConfluentInspector_get_all_subjects(r, ord, o) ==
    LET response == GetSubjects(r, ord, FALSE, o)
    IN  IF response.exc THEN <<>>
        ELSE IF response.status = 200 THEN response.body
        ELSE <<>>

-----------------------------------------------------------------------------
(* SchemaAnalyzer (tools/schema_analyzer.py).  A JSON value is a record     *)
(* with one field that tells its Python type: [str |-> "int"] is the text  *)
(* "int", [list |-> <<...>>] a list, [dict |-> [type |-> "enum", ...]] an  *)
(* object, [int |-> 42], [float |-> "3.14"], [bool |-> TRUE] the literals, *)
(* None is null.                                                           *)

Str(s) == [str |-> s]
List(l) == [list |-> l]
Dict(d) == [dict |-> d]
EmptyDict == [dict |-> <<>>]

\* isinstance(v, str), isinstance(v, list), isinstance(v, dict)
IsStr(v) == "str" \in DOMAIN v
IsList(v) == "list" \in DOMAIN v
IsDict(v) == "dict" \in DOMAIN v

\* a union whose first member is taken, null or not
NonNull_KeepsNull(members) == members

\* [t for t in avro_type if t != "null"]
NonNull(members) ==
    LET Test(m) == m # Str("null") IN SelectSeq(members, Test)

\* a type mapping without the hints of long and bytes
type_mapping_NoHints ==
    ("string" :> [type |-> "string"]) @@
    ("int" :> [type |-> "integer"]) @@
    ("long" :> [type |-> "integer"]) @@
    ("float" :> [type |-> "number", format |-> "float"]) @@
    ("double" :> [type |-> "number", format |-> "double"]) @@
    ("boolean" :> [type |-> "boolean"]) @@
    ("bytes" :> [type |-> "string"]) @@
    ("null" :> [type |-> "null"])

type_mapping ==
    ("string" :> [type |-> "string"]) @@
    ("int" :> [type |-> "integer"]) @@
    ("long" :> [type |-> "integer", format |-> "int64"]) @@
    ("float" :> [type |-> "number", format |-> "float"]) @@
    ("double" :> [type |-> "number", format |-> "double"]) @@
    ("boolean" :> [type |-> "boolean"]) @@
    ("bytes" :> [type |-> "string", contentEncoding |-> "base64"]) @@
    ("null" :> [type |-> "null"])

examples ==
    ("string" :> Str("example-string")) @@
    ("int" :> [int |-> 42]) @@
    ("long" :> [int |-> 1234567890]) @@
    ("float" :> [float |-> "3.14"]) @@
    ("double" :> [float |-> "3.14159"]) @@
    ("boolean" :> [bool |-> TRUE]) @@
    ("bytes" :> Str("base64-encoded-data")) @@
    ("null" :> None)

\* no call made yet
NoAnalysis == [op |-> "none", input |-> None, output |-> None]

RECURSIVE convert_avro_type(_)
convert_avro_type(avro_type) ==
    IF IsStr(avro_type)
    THEN DictGet(type_mapping, avro_type.str, [type |-> "string"])
    ELSE IF IsList(avro_type)
    THEN LET non_null_types == NonNull(avro_type.list)
         IN  IF non_null_types # <<>>
             THEN convert_avro_type(non_null_types[1])
             ELSE [type |-> "null"]
    ELSE IF IsDict(avro_type)
    THEN LET d == avro_type.dict
             avro_complex_type == DictGet(d, "type", "None")
             logical == DictGet(d, "logicalType", "None")
         IN  IF avro_complex_type = "enum"
             THEN [type |-> "string", enum |-> DictGet(d, "symbols", <<>>)]
             ELSE IF avro_complex_type = "array"
             THEN [type |-> "array",
                   items |-> convert_avro_type(DictGet(d, "items", None))]
             ELSE IF avro_complex_type = "record"
             THEN [type |-> "object"]
             ELSE IF logical \in {"timestamp-millis", "timestamp-micros"}
             THEN [type |-> "string", format |-> "date-time"]
             ELSE IF logical = "date"
             THEN [type |-> "string", format |-> "date"]
             ELSE [type |-> "string"]
    ELSE [type |-> "string"]

\* an enum whose example is its last symbol
FirstSymbol_Last(symbols) ==
    IF symbols # <<>> THEN Str(symbols[Len(symbols)]) ELSE Str("ENUM_VALUE")

\* symbols[0] if symbols else "ENUM_VALUE"
FirstSymbol(symbols) ==
    IF symbols # <<>> THEN Str(symbols[1]) ELSE Str("ENUM_VALUE")

RECURSIVE generate_example_value(_)
generate_example_value(avro_type) ==
    IF IsStr(avro_type)
    THEN DictGet(examples, avro_type.str, Str("example"))
    ELSE IF IsList(avro_type)
    THEN LET non_null == NonNull(avro_type.list)
         IN  IF non_null # <<>>
             THEN generate_example_value(non_null[1])
             ELSE None
    ELSE IF IsDict(avro_type)
    THEN LET d == avro_type.dict
             avro_complex_type == DictGet(d, "type", "None")
             logical == DictGet(d, "logicalType", "None")
             symbols == DictGet(d, "symbols", <<>>)
         IN  IF avro_complex_type = "enum"
             THEN FirstSymbol(symbols)
             ELSE IF avro_complex_type = "array"
             THEN List(<<>>)
             ELSE IF avro_complex_type = "record"
             THEN EmptyDict
             ELSE IF logical \in {"timestamp-millis", "timestamp-micros"}
             THEN Str("2024-01-01T12:00:00Z")
             ELSE IF logical = "date"
             THEN Str("2024-01-01")
             ELSE Str("example")
    ELSE Str("example")

\* A schema text is what json.loads makes of it: a value, or nothing when
\* the text is not JSON.  A record schema is an object whose "fields" is a
\* list of objects with a name (a string), a type and, optionally, a doc
\* and a default.
Json(value) == [json |-> value]
NotJson == [text |-> "{not json"]
IsJson(text) == "json" \in DOMAIN text

\* field["name"] or field["type"] raises
FieldRaises(field) ==
    \/ ~IsDict(field)
    \/ "name" \notin DOMAIN field.dict
    \/ "type" \notin DOMAIN field.dict

\* avro.get("fields", []), for a text that is a JSON object
FieldsOf(text) == DictGet(text.json.dict, "fields", <<>>)

\* json.loads raises, avro.get raises, or the loop over the fields does
SchemaRaises(text) ==
    \/ ~IsJson(text)
    \/ ~IsDict(text.json)
    \/ \E i \in 1..Len(FieldsOf(text)) : FieldRaises(FieldsOf(text)[i])

\* a default that counts only when it is truthy
HasDefault_Truthy(field) ==
    /\ "default" \in DOMAIN field.dict
    /\ field.dict.default \notin
            {None, [int |-> 0], [bool |-> FALSE], Str(""), List(<<>>), EmptyDict}

\* "default" in field
HasDefault(field) == "default" \in DOMAIN field.dict

\* the property of one field, as lines 31-42 build it
PropertyNode(field) ==
    LET field_type == field.dict.type
        json_type == convert_avro_type(field_type)
        node == [type |-> json_type.type,
                 description |-> DictGet(field.dict, "doc", "")]
        enum == IF IsDict(field_type)
                   /\ DictGet(field_type.dict, "type", "None") = "enum"
                THEN [enum |-> DictGet(field_type.dict, "symbols", <<>>)]
                ELSE <<>>
        default == IF HasDefault(field)
                   THEN [default |-> field.dict.default]
                   ELSE <<>>
    IN  default @@ enum @@ node

\* json_schema["properties"]: a later field of the same name replaces an
\* earlier one
RECURSIVE Properties(_)
Properties(fields) ==
    IF fields = <<>> THEN <<>>
    ELSE LET field == fields[Len(fields)]
         IN  (field.dict.name :> PropertyNode(field))
                 @@ Properties(SubSeq(fields, 1, Len(fields) - 1))

\* json_schema["required"]: the names appended in the else branch
Required(fields) ==
    LET NoDefault(field) == ~HasDefault(field)
        kept == SelectSeq(fields, NoDefault)
    IN  [i \in 1..Len(kept) |-> kept[i].dict.name]

ConversionError == [type |-> "object", description |-> "Schema conversion error"]

avro_to_asyncapi_schema(avro_schema_str) ==
    IF SchemaRaises(avro_schema_str)
    THEN ConversionError
    ELSE LET avro == avro_schema_str.json.dict
             fields == FieldsOf(avro_schema_str)
         IN  [type |-> "object",
              description |-> DictGet(avro, "doc", ""),
              properties |-> Properties(fields),
              required |-> Required(fields)]

\* example[field_name]
ExampleValue(field) ==
    IF HasDefault(field)
    THEN field.dict.default
    ELSE generate_example_value(field.dict.type)

RECURSIVE Examples(_)
Examples(fields) ==
    IF fields = <<>> THEN <<>>
    ELSE LET field == fields[Len(fields)]
         IN  (field.dict.name :> ExampleValue(field))
                 @@ Examples(SubSeq(fields, 1, Len(fields) - 1))

extract_message_examples(avro_schema_str) ==
    IF SchemaRaises(avro_schema_str)
    THEN <<>>
    ELSE Examples(FieldsOf(avro_schema_str))

-----------------------------------------------------------------------------
(* SchemaHealthChecker: the seven checks.  Each takes the two lists of the *)
(* checker and returns its result with the lists as it leaves them.        *)
(*                                                                         *)
(* Besides the named subjects the registry may list anon.lead anonymous    *)
(* subjects before them and anon.trail after them: active subjects with    *)
(* one version, a small schema, no compatibility level of their own and no *)
(* reference, in which no check finds anything.                            *)

HighSubjectCount == 1000
VeryHighSubjectCount == 5000
ManyVersions == 50
TooManyVersions == 100
LargeSchemaKB == 100
LargeSchemaSample == 100
CompatibilitySample == 50
ReferenceSample == 50
SoftDeletedShown == 10

\* len() of a list or of a JSON object
PyLen(x) == Cardinality(DOMAIN x)

Min(a, b) == IF a < b THEN a ELSE b
Max(a, b) == IF a > b THEN a ELSE b

\* a check that samples nothing and works on the whole listing
SampledNames_All(names, a, limit) == names

\* the named subjects among the first `limit` subjects of a listing
SampledNames(names, a, limit) ==
    SubSeq(names, 1, Min(Len(names), Max(0, limit - a.lead)))

ListingLength(names, a) == a.lead + Len(names) + a.trail

Finding(kind, s, n) == [kind |-> kind, subject |-> s, n |-> n]
Checked(check, iss, warn) == [check |-> check, issues |-> iss, warnings |-> warn]
CheckError == [status |-> "ERROR"]
CheckOK == [status |-> "OK"]

ConnOutcomes == Outcomes \cup {"conn"}

\* the connectivity check without raise_for_status()
check_connectivity_AnyStatus(r, ord, a, iss, warn, o) ==
    LET response == GetSubjects(r, ord, FALSE, o)
    IN  IF response.exc
        THEN Checked([status |-> "CRITICAL", message |-> "Connection error"],
                     Append(iss, Finding("Connectivity", <<>>, 0)), warn)
        ELSE Checked([status |-> "OK", message |-> "Schema Registry is reachable"],
                     iss, warn)

check_connectivity(r, ord, a, iss, warn, o) ==
    LET response == GetSubjects(r, ord, FALSE, o)
        msg == IF o = "exc" THEN "Connection timeout (>10s)"
               ELSE IF o = "conn" THEN "Connection error"
               ELSE "HTTPError"
    IN  IF response.exc \/ response.status >= 400
        THEN Checked([status |-> "CRITICAL", message |-> msg],
                     Append(iss, Finding("Connectivity", <<>>, 0)), warn)
        ELSE Checked([status |-> "OK", message |-> "Schema Registry is reachable"],
                     iss, warn)

check_subject_count(r, ord, a, iss, warn, o) ==
    LET response == GetSubjects(r, ord, FALSE, o)
        count == ListingLength(response.body, a)
    IN  IF response.exc \/ response.status >= 400
        THEN Checked(CheckError, iss, warn)
        ELSE IF count > HighSubjectCount
        THEN Checked([status |-> "WARNING", count |-> count], iss,
                     Append(warn, Finding("High subject count", <<>>, count)))
        ELSE IF count > VeryHighSubjectCount
        THEN Checked([status |-> "CRITICAL", count |-> count],
                     Append(iss, Finding("Very high subject count", <<>>, count)),
                     warn)
        ELSE Checked([status |-> "OK", count |-> count], iss, warn)

\* The checks that scan the listed subjects.  The loop body of a check is an
\* operator on the locals of the check and the two lists of the checker: what
\* it has found, the issues, the warnings, the subjects left to visit (the
\* first is the one it visits) and, in the orphaned_refs check, the
\* references of that subject left to look up.  The subjects visited are the
\* named ones; the requests made for the anonymous ones find nothing.
Acc(found, iss, warn, rest) ==
    [found |-> found, issues |-> iss, warnings |-> warn, rest |-> rest, refs |-> <<>>]

NoScan == [found |-> <<>>, rest |-> <<>>, refs |-> <<>>, faulty |-> 0]

\* the scan given up at the first subject whose request raises
scan_versions_StopsOnFailure(r, o, acc) ==
    LET subject == Head(acc.rest)
        resp == GetVersions(r, subject, o)
        version_count == PyLen(resp.body)
        found == Finding("versions", subject, version_count)
        next == [acc EXCEPT !.rest = Tail(@)]
    IN  IF resp.exc THEN [acc EXCEPT !.rest = <<>>]
        ELSE IF ~(version_count > ManyVersions) THEN next
        ELSE IF version_count > TooManyVersions
        THEN [next EXCEPT !.found = Append(@, found), !.issues = Append(@, found)]
        ELSE [next EXCEPT !.found = Append(@, found), !.warnings = Append(@, found)]

\* _check_version_explosion, the body of its loop: GET
\* /subjects/{subject}/versions for the next subject
scan_versions(r, o, acc) ==
    LET subject == Head(acc.rest)
        resp == GetVersions(r, subject, o)
        version_count == PyLen(resp.body)
        found == Finding("versions", subject, version_count)
        next == [acc EXCEPT !.rest = Tail(@)]
    IN  IF resp.exc \/ ~(version_count > ManyVersions) THEN next
        ELSE IF version_count > TooManyVersions
        THEN [next EXCEPT !.found = Append(@, found), !.issues = Append(@, found)]
        ELSE [next EXCEPT !.found = Append(@, found), !.warnings = Append(@, found)]

\* _check_large_schemas, the body of its loop: GET
\* /subjects/{subject}/versions/latest for the next subject
scan_sizes(r, o, acc) ==
    LET subject == Head(acc.rest)
        schema_resp == GetLatest(r, subject, o)
        size == DictGet(schema_resp.body, "schema", 0)
        found == Finding("size", subject, size)
        next == [acc EXCEPT !.rest = Tail(@)]
    IN  IF schema_resp.exc \/ ~(size > LargeSchemaKB * 1024) THEN next
        ELSE [next EXCEPT !.found = Append(@, found), !.warnings = Append(@, found)]

\* _check_compatibility_config, the body of its loop: GET /config/{subject}
\* for the next subject
scan_configs(r, o, acc) ==
    LET subject == Head(acc.rest)
        config_resp == GetConfig(r, subject, o)
        next == [acc EXCEPT !.rest = Tail(@)]
    IN  IF /\ ~config_resp.exc
           /\ config_resp.status = 200
           /\ DictGet(config_resp.body, "compatibilityLevel", "None") = "NONE"
        THEN [next EXCEPT !.found = Append(@, subject)]
        ELSE next

\* _check_orphaned_references, the body of its outer loop up to the inner
\* one: GET /subjects/{subject}/versions/latest for the next subject, whose
\* references are then to be looked up
scan_references(r, o, acc) ==
    LET subject == Head(acc.rest)
        schema_resp == GetLatest(r, subject, o)
        references == DictGet(schema_resp.body, "references", <<>>)
    IN  IF schema_resp.exc \/ references = <<>>
        THEN [acc EXCEPT !.rest = Tail(@)]
        ELSE [acc EXCEPT !.refs = references]

\* the body of the inner loop: GET /subjects/{ref_subject}/versions for the
\* next reference; an exception ends the work on the subject that holds it
lookup_reference(r, o, acc) ==
    LET subject == Head(acc.rest)
        ref_subject == Head(acc.refs)
        check_resp == GetVersions(r, ref_subject, o)
        found == Finding("missing", subject, 0) @@ [missing_ref |-> ref_subject]
        next == IF Tail(acc.refs) = <<>>
                THEN [acc EXCEPT !.refs = <<>>, !.rest = Tail(@)]
                ELSE [acc EXCEPT !.refs = Tail(@)]
    IN  IF check_resp.exc
        THEN [acc EXCEPT !.refs = <<>>, !.rest = Tail(@)]
        ELSE IF check_resp.status = 404
        THEN [next EXCEPT !.found = Append(@, found), !.issues = Append(@, found)]
        ELSE next

\* one turn of the outer loop on one registry; g is the outcome of the
\* requests that look the references up
visit_references(r, o, g, acc) ==
    LET first == scan_references(r, o, acc)
        G[j \in 0..Len(first.refs)] ==
            IF j = 0 THEN first
            ELSE IF G[j - 1].refs = <<>> THEN G[j - 1]
            ELSE lookup_reference(r, g, G[j - 1])
    IN  G[Len(first.refs)]

\* a loop run to its end on one registry: one turn for each of `names`, in
\* order; f gives the outcome of the request made for each subject, g that
\* of the requests that look references up
Turns(names, loop, r, f, g, acc) ==
    LET F[i \in 0..Len(names)] ==
            IF i = 0 THEN acc
            ELSE LET p == F[i - 1]
                     o == f[Head(p.rest)]
                 IN  IF p.rest = <<>> THEN p
                     ELSE IF loop = "versions" THEN scan_versions(r, o, p)
                     ELSE IF loop = "sizes" THEN scan_sizes(r, o, p)
                     ELSE IF loop = "configs" THEN scan_configs(r, o, p)
                     ELSE visit_references(r, o, g, p)
    IN  F[Len(names)]

\* An error status is not looked at: the loop then runs over the keys of the
\* error object, which name no subject of the registry and yield nothing.
version_explosion_names(response) ==
    IF response.status = 200 THEN response.body ELSE <<>>

\* after the loop
version_explosion_result(acc) ==
    IF acc.found # <<>>
    THEN Checked([status |-> IF acc.issues = <<>> THEN "WARNING" ELSE "CRITICAL",
                  explosions |-> acc.found], acc.issues, acc.warnings)
    ELSE Checked(CheckOK, acc.issues, acc.warnings)

\* the whole check on a registry nobody else changes meanwhile
check_version_explosion(r, ord, a, iss, warn, o, f) ==
    LET response == GetSubjects(r, ord, FALSE, o)
        names == version_explosion_names(response)
        out == Turns(names, "versions", r, f, "ok", Acc(<<>>, iss, warn, names))
    IN  IF response.exc
        THEN Checked(CheckError, iss, warn)
        ELSE version_explosion_result(out)

large_schemas_result(acc) ==
    IF acc.found # <<>>
    THEN Checked([status |-> "WARNING", large_schemas |-> acc.found],
                 acc.issues, acc.warnings)
    ELSE Checked(CheckOK, acc.issues, acc.warnings)

\* subjects[:sample_size] raises on the error object of an error status
check_large_schemas(r, ord, a, iss, warn, o, f) ==
    LET response == GetSubjects(r, ord, FALSE, o)
        names == IF response.status = 200
                 THEN SampledNames(response.body, a, LargeSchemaSample) ELSE <<>>
        out == Turns(names, "sizes", r, f, "ok", Acc(<<>>, iss, warn, names))
    IN  IF response.exc \/ response.status # 200
        THEN Checked(CheckError, iss, warn)
        ELSE large_schemas_result(out)

compatibility_result(acc) ==
    IF acc.found # <<>>
    THEN Checked([status |-> "WARNING", none_compat_count |-> Len(acc.found)],
                 acc.issues,
                 Append(acc.warnings,
                        Finding("NONE compatibility", <<>>, Len(acc.found))))
    ELSE Checked(CheckOK, acc.issues, acc.warnings)

check_compatibility_config(r, ord, a, iss, warn, og, o, f) ==
    LET global_resp == GetGlobalConfig(r, og)
        response == GetSubjects(r, ord, FALSE, o)
        names == IF response.status = 200
                 THEN SampledNames(response.body, a, CompatibilitySample) ELSE <<>>
        out == Turns(names, "configs", r, f, "ok", Acc(<<>>, iss, warn, names))
    IN  IF global_resp.exc \/ response.exc \/ response.status # 200
        THEN Checked(CheckError, iss, warn)
        ELSE compatibility_result(out)

\* On an error status `deleted` is the error object: it is counted, the
\* warning is appended, and deleted[:10] then raises.
check_soft_deleted(r, ord, a, iss, warn, o) ==
    LET response == GetSubjects(r, ord, TRUE, o)
        count == IF response.status = 200
                 THEN ListingLength(response.body, a)
                 ELSE PyLen(response.body)
        warned == Append(warn, Finding("soft-deleted subjects", <<>>, count))
    IN  IF response.exc
        THEN Checked(CheckError, iss, warn)
        ELSE IF count > 0
        THEN IF response.status = 200
             THEN Checked([status |-> "WARNING", count |-> count,
                           subjects |-> SampledNames(response.body, a,
                                                     SoftDeletedShown)],
                          iss, warned)
             ELSE Checked(CheckError, iss, warned)
        ELSE Checked(CheckOK, iss, warn)

orphaned_references_result(acc) ==
    IF acc.found # <<>>
    THEN Checked([status |-> "CRITICAL", orphaned |-> acc.found],
                 acc.issues, acc.warnings)
    ELSE Checked(CheckOK, acc.issues, acc.warnings)

check_orphaned_references(r, ord, a, iss, warn, o, f, g) ==
    LET response == GetSubjects(r, ord, FALSE, o)
        names == IF response.status = 200
                 THEN SampledNames(response.body, a, ReferenceSample) ELSE <<>>
        out == Turns(names, "references", r, f, g, Acc(<<>>, iss, warn, names))
    IN  IF response.exc \/ response.status # 200
        THEN Checked(CheckError, iss, warn)
        ELSE orphaned_references_result(out)

\* the summary looking at the warnings first
Summary_WarningsFirst(iss, warn) ==
    [total_issues |-> Len(iss), total_warnings |-> Len(warn),
     status |-> IF warn # <<>> THEN "WARNING"
                ELSE IF iss # <<>> THEN "CRITICAL" ELSE "OK"]

\* results["summary"]; its "issues" and "warnings" are the checker's own
\* lists, not copies
Summary(iss, warn) ==
    [total_issues |-> Len(iss), total_warnings |-> Len(warn),
     status |-> IF iss # <<>> THEN "CRITICAL"
                ELSE IF warn # <<>> THEN "WARNING" ELSE "OK"]

-----------------------------------------------------------------------------
(* State machine of the purger *)

\* a subject is active, soft-deleted (its versions kept) or absent
RegStates ==
    {[s \in Subjects |->
        IF st[s] = "absent" THEN Absent
        ELSE Holding(st[s], InitVersions[s], 1, "unset", <<>>)] :
            st \in [Subjects -> {"active", "soft", "absent"}]}

NoReport == [checks |-> <<>>, summary |-> <<>>]

NoCall == [op |-> "none", subjects |-> <<>>, min_versions |-> <<>>, pattern |-> <<>>]
NoPrev == [repeat |-> FALSE, ret |-> NoRet, clean |-> TRUE]

\* the operations whose repetition is studied
Tracked == {"soft_delete_subject", "hard_delete_subject", "purge_soft_deleted"}

NoResults == [total |-> 0, successful |-> <<>>, failed |-> <<>>]

InitServices ==
    /\ reg \in RegStates
    /\ order \in Orders
    /\ pc = "idle"
    /\ call = NoCall
    /\ subjects = <<>>
    /\ queue = <<>>
    /\ results = NoResults
    /\ filtered = <<>>
    /\ dels = <<>>
    /\ clean = TRUE
    /\ reg0 = reg
    /\ ret = NoRet
    /\ prev = NoPrev
    /\ all_listed = <<>>
    /\ versions_resp = NoAnswer
    /\ anon = [lead |-> 0, trail |-> 0]
    /\ issues = <<>>
    /\ warnings = <<>>
    /\ cpc = "idle"
    /\ checks = <<>>
    /\ report = NoReport
    /\ runs = 0
    /\ earlier = NoReport
    /\ scan = NoScan
    /\ last_response = NoResponse

Init ==
    /\ InitServices
    /\ analysis = NoAnalysis

Begin(c) ==
    /\ pc = "idle"
    /\ call' = c
    /\ reg0' = reg
    /\ prev' = IF c = call /\ c.op \in Tracked
               THEN [repeat |-> TRUE, ret |-> ret, clean |-> clean]
               ELSE NoPrev
    /\ UNCHANGED auditor

Op(name) == [NoCall EXCEPT !.op = name]

\* get_all_subjects(include_deleted)
GetAllSubjects ==
    \E include_deleted \in BOOLEAN, o \in Outcomes :
        /\ Begin(Op("get_all_subjects"))
        /\ ret' = get_all_subjects(reg, order, include_deleted, o)
        /\ last_response' = Received(GetSubjects(reg, order, include_deleted, o))
        /\ clean' = (o = "ok")
        /\ dels' = <<>>
        /\ subjects' = <<>>
        /\ UNCHANGED <<reg, order, pc, queue, results, filtered, analysis, all_listed, versions_resp>>

\* get_subject_details(subject), first request: GET
\* /subjects/{subject}/versions
GetSubjectDetails ==
    \E s \in Subjects, o \in Outcomes :
        LET resp == Kept(GetVersions(reg, s, o))
        IN  /\ Begin([Op("get_subject_details") EXCEPT !.subjects = <<s>>])
            /\ clean' = (o = "ok")
            /\ dels' = <<>>
            /\ subjects' = <<>>
            /\ IF resp.exc
               THEN /\ ret' = Returned(get_subject_details(s, resp, NoAnswer))
                    /\ UNCHANGED <<pc, versions_resp>>
               ELSE /\ ret' = NoRet
                    /\ pc' = "details_latest"
                    /\ versions_resp' = resp
            /\ UNCHANGED <<reg, order, queue, results, filtered, last_response,
                           analysis, all_listed>>

\* second request: GET /subjects/{subject}/versions/latest, and the return
GetSubjectDetailsLatest ==
    /\ pc = "details_latest"
    /\ \E o \in Outcomes :
        LET subject == call.subjects[1]
            latest_resp == Kept(GetLatest(reg, subject, o))
        IN  /\ ret' = Returned(get_subject_details(subject, versions_resp, latest_resp))
            /\ clean' = (clean /\ o = "ok")
    /\ pc' = "idle"
    /\ versions_resp' = NoAnswer
    /\ UNCHANGED <<reg, order, call, subjects, queue, results, filtered, dels, reg0,
                   prev, all_listed, auditor, last_response, analysis>>

\* soft_delete_subject(subject)
SoftDeleteSubject ==
    \E s \in Subjects, o \in Outcomes :
        LET x == soft_delete_subject(reg, s, o)
        IN  /\ Begin([Op("soft_delete_subject") EXCEPT !.subjects = <<s>>])
            /\ reg' = x.reg
            /\ dels' = x.dels
            /\ clean' = (o = "ok")
            /\ ret' = x.ret
            /\ subjects' = <<>>
            /\ UNCHANGED <<order, pc, queue, results, filtered, last_response, analysis, all_listed, versions_resp>>

\* delete_subject_version(subject, version)
DeleteSubjectVersion ==
    \E s \in Subjects, v \in VersionNumbers, o \in Outcomes :
        LET x == delete_subject_version(reg, s, v, o)
        IN  /\ VersionDeletes(reg) < MaxVersionDeletes
            /\ Begin([Op("delete_subject_version") EXCEPT !.subjects = <<s>>])
            /\ reg' = x.reg
            /\ dels' = x.dels
            /\ clean' = (o = "ok")
            /\ ret' = x.ret
            /\ subjects' = <<>>
            /\ UNCHANGED <<order, pc, queue, results, filtered, last_response, analysis, all_listed, versions_resp>>

\* hard_delete_subject(subject), first request; when it raises the call
\* returns
HardDeleteSubject ==
    \E s \in Subjects, o \in Outcomes :
        LET soft_delete_resp == HardDeleteFirst(reg, s, o)
        IN  /\ Begin([Op("hard_delete_subject") EXCEPT !.subjects = <<s>>])
            /\ reg' = soft_delete_resp.reg
            /\ dels' = <<Request(s, FALSE, soft_delete_resp)>>
            /\ clean' = (o = "ok")
            /\ subjects' = <<>>
            /\ IF soft_delete_resp.exc
               THEN /\ ret' = Returned(hard_delete_subject(s, soft_delete_resp,
                                                           NoAnswer))
                    /\ UNCHANGED pc
               ELSE /\ ret' = NoRet
                    /\ pc' = "hard_permanent"
            /\ UNCHANGED <<order, queue, results, filtered, last_response, analysis,
                           all_listed, versions_resp>>

\* second request, and the return
HardDeletePermanent ==
    /\ pc = "hard_permanent"
    /\ \E o \in Outcomes :
        LET subject == call.subjects[1]
            response == HardDeleteSecond(reg, subject, o)
        IN  /\ reg' = response.reg
            /\ dels' = Append(dels, Request(subject, TRUE, response))
            /\ clean' = (clean /\ o = "ok")
            /\ ret' = Returned(hard_delete_subject(subject, dels[Len(dels)], response))
    /\ pc' = "idle"
    /\ UNCHANGED <<order, call, subjects, queue, results, filtered, reg0, prev,
                   all_listed, versions_resp, auditor, last_response, analysis>>

\* the head of bulk_soft_delete / bulk_hard_delete: results = {total, [], []}
EnterBulk(loop, input) ==
    /\ pc' = loop
    /\ subjects' = input
    /\ queue' = input
    /\ results' = [total |-> Len(input), successful |-> <<>>, failed |-> <<>>]

\* Collect losing the failures
Collect_DropFailed(res, result) ==
    IF result.success
    THEN [res EXCEPT !.successful = Append(@, result)]
    ELSE res

\* results["successful"].append(result) or results["failed"].append(result)
Collect(res, result) ==
    IF result.success
    THEN [res EXCEPT !.successful = Append(@, result)]
    ELSE [res EXCEPT !.failed = Append(@, result)]

\* the tail of bulk_*_delete: the two counts, then return
Counted(res) ==
    [total |-> res.total, successful |-> res.successful, failed |-> res.failed,
     success_count |-> Len(res.successful), failure_count |-> Len(res.failed)]

BulkSoftDelete ==
    \E input \in SeqsUpTo(Subjects, MaxBulk) :
        /\ Begin([Op("bulk_soft_delete") EXCEPT !.subjects = input])
        /\ EnterBulk("bulk_soft", input)
        /\ dels' = <<>>
        /\ clean' = TRUE
        /\ ret' = NoRet
        /\ UNCHANGED <<reg, order, filtered, last_response, analysis, all_listed, versions_resp>>

\* the loop of bulk_soft_delete leaving at the first failure
BulkSoftStep_StopOnFailure ==
    /\ pc = "bulk_soft"
    /\ queue # <<>>
    /\ \E o \in Outcomes :
        LET x == soft_delete_subject(reg, Head(queue), o)
        IN  /\ reg' = x.reg
            /\ results' = Collect(results, x.ret.value)
            /\ dels' = dels \o x.dels
            /\ clean' = (clean /\ o = "ok")
            /\ queue' = IF x.ret.value.success THEN Tail(queue) ELSE <<>>
    /\ UNCHANGED <<order, pc, call, subjects, filtered, reg0, ret, prev, auditor, last_response, analysis, all_listed, versions_resp>>

BulkSoftStep ==
    /\ pc = "bulk_soft"
    /\ queue # <<>>
    /\ \E o \in Outcomes :
        LET x == soft_delete_subject(reg, Head(queue), o)
        IN  /\ reg' = x.reg
            /\ results' = Collect(results, x.ret.value)
            /\ dels' = dels \o x.dels
            /\ clean' = (clean /\ o = "ok")
    /\ queue' = Tail(queue)
    /\ UNCHANGED <<order, pc, call, subjects, filtered, reg0, ret, prev, auditor, last_response, analysis, all_listed, versions_resp>>

BulkSoftReturn ==
    /\ pc = "bulk_soft"
    /\ queue = <<>>
    /\ ret' = Returned(Counted(results))
    /\ pc' = "idle"
    /\ results' = NoResults
    /\ UNCHANGED <<reg, order, call, subjects, queue, filtered, dels, clean, reg0, prev, auditor, last_response, analysis, all_listed, versions_resp>>

BulkHardDelete ==
    \E input \in SeqsUpTo(Subjects, MaxBulk) :
        /\ Begin([Op("bulk_hard_delete") EXCEPT !.subjects = input])
        /\ EnterBulk("bulk_hard", input)
        /\ dels' = <<>>
        /\ clean' = TRUE
        /\ ret' = NoRet
        /\ UNCHANGED <<reg, order, filtered, last_response, analysis, all_listed, versions_resp>>

\* one iteration of bulk_hard_delete, first request of hard_delete_subject;
\* when it raises the iteration is over
BulkHardStep ==
    /\ pc = "bulk_hard"
    /\ queue # <<>>
    /\ \E o \in Outcomes :
        LET subject == Head(queue)
            soft_delete_resp == HardDeleteFirst(reg, subject, o)
        IN  /\ reg' = soft_delete_resp.reg
            /\ dels' = Append(dels, Request(subject, FALSE, soft_delete_resp))
            /\ clean' = (clean /\ o = "ok")
            /\ IF soft_delete_resp.exc
               THEN /\ results' = Collect(results,
                                          hard_delete_subject(subject, soft_delete_resp,
                                                              NoAnswer))
                    /\ queue' = Tail(queue)
                    /\ UNCHANGED pc
               ELSE /\ pc' = "bulk_hard_permanent"
                    /\ UNCHANGED <<results, queue>>
    /\ UNCHANGED <<order, call, subjects, filtered, reg0, ret, prev, all_listed,
                   versions_resp, auditor, last_response, analysis>>

\* second request of hard_delete_subject, its result, and the end of the
\* iteration
BulkHardPermanentStep ==
    /\ pc = "bulk_hard_permanent"
    /\ \E o \in Outcomes :
        LET subject == Head(queue)
            response == HardDeleteSecond(reg, subject, o)
        IN  /\ reg' = response.reg
            /\ dels' = Append(dels, Request(subject, TRUE, response))
            /\ clean' = (clean /\ o = "ok")
            /\ results' = Collect(results,
                                  hard_delete_subject(subject, dels[Len(dels)], response))
    /\ queue' = Tail(queue)
    /\ pc' = "bulk_hard"
    /\ UNCHANGED <<order, call, subjects, filtered, reg0, ret, prev, all_listed,
                   versions_resp, auditor, last_response, analysis>>

BulkHardReturn ==
    /\ pc = "bulk_hard"
    /\ queue = <<>>
    /\ ret' = Returned(Counted(results))
    /\ pc' = "idle"
    /\ results' = NoResults
    /\ UNCHANGED <<reg, order, call, subjects, queue, filtered, dels, clean, reg0, prev, auditor, last_response, analysis, all_listed, versions_resp>>

\* the difference forgotten: everything the deleted=true listing holds
Difference_None(soft_deleted, active) == soft_deleted

\* deleted_subjects = [s for s in soft_deleted if s not in active]
Difference(soft_deleted, active) ==
    SelectSeq(soft_deleted, LAMBDA s : s \notin Range(active))

NothingToPurge == [success |-> TRUE, message |-> <<"No soft-deleted subjects found">>,
                   count |-> 0]
PurgeError == [success |-> FALSE, error |-> Raised]

\* purge_soft_deleted(), first request: GET /subjects?deleted=true
PurgeSoftDeleted ==
    \E o \in Outcomes :
        LET soft_deleted == get_all_subjects(reg, order, TRUE, o)
        IN  /\ Begin(Op("purge_soft_deleted"))
            /\ dels' = <<>>
            /\ clean' = (o = "ok")
            /\ subjects' = <<>>
            /\ IF soft_deleted.kind = "raise"
               THEN /\ ret' = Returned(PurgeError)
                    /\ UNCHANGED <<pc, all_listed>>
               ELSE /\ ret' = NoRet
                    /\ all_listed' = soft_deleted.value
                    /\ pc' = "purge_active"
            /\ UNCHANGED <<reg, order, queue, results, filtered, last_response,
                           analysis, versions_resp>>

\* second request: GET /subjects; then the difference, and either a return
\* or the call of bulk_hard_delete, whose return value it returns
PurgeListActive ==
    /\ pc = "purge_active"
    /\ \E o \in Outcomes :
        LET active == get_all_subjects(reg, order, FALSE, o)
            deleted_subjects == Difference(all_listed, active.value)
        IN  /\ clean' = (clean /\ o = "ok")
            /\ IF active.kind = "raise"
               THEN /\ ret' = Returned(PurgeError)
                    /\ pc' = "idle"
                    /\ UNCHANGED <<subjects, queue, results>>
               ELSE IF deleted_subjects = <<>>
               THEN /\ ret' = Returned(NothingToPurge)
                    /\ pc' = "idle"
                    /\ UNCHANGED <<subjects, queue, results>>
               ELSE /\ ret' = NoRet
                    /\ EnterBulk("bulk_hard", deleted_subjects)
    /\ all_listed' = <<>>
    /\ UNCHANGED <<reg, order, call, filtered, dels, reg0, prev, versions_resp, auditor,
                   last_response, analysis>>

\* get_subjects_by_filter(min_versions, pattern): the listing
GetSubjectsByFilter ==
    \E min_versions \in OptMinVersions, pattern \in OptPatterns, o \in Outcomes :
        LET all_subjects == get_all_subjects(reg, order, FALSE, o)
        IN  /\ Begin([Op("get_subjects_by_filter") EXCEPT
                        !.min_versions = min_versions, !.pattern = pattern])
            /\ dels' = <<>>
            /\ clean' = (o = "ok")
            /\ subjects' = <<>>
            /\ filtered' = <<>>
            /\ IF all_subjects.kind = "raise"
               THEN /\ ret' = Raise(<<"Failed to filter subjects">>)
                    /\ UNCHANGED <<pc, queue>>
               ELSE /\ ret' = NoRet
                    /\ pc' = "filter"
                    /\ queue' = all_subjects.value
            /\ UNCHANGED <<reg, order, results, last_response, analysis, all_listed, versions_resp>>

\* one iteration.  Without min_versions it sends nothing; with min_versions
\* it calls get_subject_details, and this is its first request
FilterStep ==
    /\ pc = "filter"
    /\ queue # <<>>
    /\ \E o \in Outcomes :
        LET subject == Head(queue)
            resp == Kept(GetVersions(reg, subject, o))
            details == get_subject_details(subject, resp, NoAnswer)
            sent == call.min_versions # <<>>
        IN  /\ ~sent => o = "ok"
            /\ clean' = (clean /\ o = "ok")
            /\ IF sent /\ ~resp.exc
               THEN /\ pc' = "filter_latest"
                    /\ versions_resp' = resp
                    /\ UNCHANGED <<filtered, queue>>
               ELSE /\ filtered' = IF FilterInclude(details, subject,
                                                    call.min_versions, call.pattern)
                                   THEN Append(filtered, subject)
                                   ELSE filtered
                    /\ queue' = Tail(queue)
                    /\ UNCHANGED <<pc, versions_resp>>
    /\ UNCHANGED <<reg, order, call, subjects, results, dels, reg0, ret, prev, auditor,
                   last_response, analysis, all_listed>>

\* second request of get_subject_details, and the end of the iteration
FilterLatestStep ==
    /\ pc = "filter_latest"
    /\ \E o \in Outcomes :
        LET subject == Head(queue)
            latest_resp == Kept(GetLatest(reg, subject, o))
            details == get_subject_details(subject, versions_resp, latest_resp)
        IN  /\ clean' = (clean /\ o = "ok")
            /\ filtered' = IF FilterInclude(details, subject, call.min_versions,
                                            call.pattern)
                           THEN Append(filtered, subject)
                           ELSE filtered
    /\ queue' = Tail(queue)
    /\ pc' = "filter"
    /\ versions_resp' = NoAnswer
    /\ UNCHANGED <<reg, order, call, subjects, results, dels, reg0, ret, prev, auditor,
                   last_response, analysis, all_listed>>

FilterReturn ==
    /\ pc = "filter"
    /\ queue = <<>>
    /\ ret' = Returned(filtered)
    /\ pc' = "idle"
    /\ filtered' = <<>>
    /\ UNCHANGED <<reg, order, call, subjects, queue, results, dels, clean, reg0, prev, auditor, last_response, analysis, all_listed, versions_resp>>

\* The specifications below follow one caller at a time on a registry that
\* nobody else changes while a call runs; SpecConcurrent adds the other client.

\* the listing and the operations on one subject
NextSingle ==
    \/ GetAllSubjects
    \/ GetSubjectDetails
    \/ GetSubjectDetailsLatest
    \/ SoftDeleteSubject
    \/ HardDeleteSubject
    \/ HardDeletePermanent

SpecSingle == Init /\ [][NextSingle]_vars

\* the bulk operations
NextBulk ==
    \/ BulkSoftDelete
    \/ BulkSoftStep
    \/ BulkSoftReturn
    \/ BulkHardDelete
    \/ BulkHardStep
    \/ BulkHardPermanentStep
    \/ BulkHardReturn

\* bulk_soft_delete and bulk_hard_delete take their subjects as an argument and
\* never ask the registry for a listing
InitBulk == Init /\ order = <<OrdersValue, OrdersKey, UsersValue>>

SpecBulk == InitBulk /\ [][NextBulk]_vars

\* purge_soft_deleted, which runs bulk_hard_delete
NextPurge ==
    \/ PurgeSoftDeleted
    \/ PurgeListActive
    \/ BulkHardStep
    \/ BulkHardPermanentStep
    \/ BulkHardReturn

SpecPurge == Init /\ [][NextPurge]_vars

\* Another client of the registry, between two requests of a running call
\* (what it does before the call is in the registry the call starts from): it
\* registers a schema under a new subject, ...
ClientRegister ==
    /\ pc # "idle" \/ cpc # "idle"
    /\ \E s \in Subjects :
        /\ reg[s].st = "absent"
        /\ reg' = [reg EXCEPT ![s] = Holding("active", 1, 1, "unset", <<>>)]
    /\ UNCHANGED <<order, purger, auditor, last_response, analysis>>

\* ... soft-deletes a subject (DELETE /subjects/{subject}), ...
ClientSoftDelete ==
    /\ pc # "idle" \/ cpc # "idle"
    /\ \E s \in Subjects :
        /\ reg[s].st = "active"
        /\ reg' = DeleteSubject(reg, s, FALSE, "ok").reg
    /\ UNCHANGED <<order, purger, auditor, last_response, analysis>>

\* ... or restores a soft-deleted subject by registering its schema again
ClientRestore ==
    /\ pc # "idle" \/ cpc # "idle"
    /\ \E s \in Subjects :
        /\ reg[s].st = "soft"
        /\ reg' = [reg EXCEPT ![s].st = "active"]
    /\ UNCHANGED <<order, purger, auditor, last_response, analysis>>


\* get_subjects_by_filter
NextFilter ==
    \/ GetSubjectsByFilter
    \/ FilterStep
    \/ FilterLatestStep
    \/ FilterReturn

SpecFilter == Init /\ [][NextFilter]_vars

\* ConfluentInspector._get_schema(subject)
InspectorGetSchema ==
    \E s \in Subjects, o \in Outcomes :
        /\ Begin([Op("ConfluentInspector._get_schema") EXCEPT !.subjects = <<s>>])
        /\ ret' = Returned(ConfluentInspector_get_schema(reg, s, o))
        /\ last_response' = Received(GetLatest(reg, s, o))
        /\ clean' = (o = "ok")
        /\ dels' = <<>>
        /\ subjects' = <<>>
        /\ UNCHANGED <<reg, order, pc, queue, results, filtered, analysis, all_listed, versions_resp>>

\* ConfluentInspector.get_all_subjects()
InspectorGetAllSubjects ==
    \E o \in Outcomes :
        /\ Begin(Op("ConfluentInspector.get_all_subjects"))
        /\ ret' = Returned(ConfluentInspector_get_all_subjects(reg, order, o))
        /\ last_response' = Received(GetSubjects(reg, order, FALSE, o))
        /\ clean' = (o = "ok")
        /\ dels' = <<>>
        /\ subjects' = <<>>
        /\ UNCHANGED <<reg, order, pc, queue, results, filtered, analysis, all_listed, versions_resp>>

-----------------------------------------------------------------------------
(* State machine of the schema analyzer *)

\* type names: the eight primitive kinds and others
Primitives ==
    {"string", "int", "long", "float", "double", "boolean", "bytes", "null"}
TypeNames == Primitives \cup {"uuid", "fixed", "record", "Int"}

\* object types: enums, arrays, records, logical types, others
ObjectTypes ==
    {Dict([type |-> "enum"])}
    \cup {Dict([type |-> "enum", symbols |-> l]) :
            l \in {<<>>, <<"A">>, <<"B", "A">>}}
    \cup {Dict([type |-> "array"])}
    \cup {Dict([type |-> "array", items |-> Str(n)]) : n \in TypeNames}
    \cup {Dict([type |-> "record", name |-> "Address"])}
    \cup {Dict([type |-> "long", logicalType |-> l]) :
            l \in {"timestamp-millis", "timestamp-micros", "date", "decimal"}}
    \cup {Dict([type |-> "map"]), Dict([logicalType |-> "date"])}

UnionMembers ==
    {Str(n) : n \in {"null", "string", "int", "long", "uuid"}}
    \cup {Dict([type |-> "enum", symbols |-> <<"B", "A">>]),
          Dict([type |-> "record", name |-> "Address"])}

\* what a field of a record may have as its type
AvroTypes ==
    {Str(n) : n \in TypeNames}
    \cup ObjectTypes
    \cup {List(l) : l \in SeqsUpTo(UnionMembers, MaxUnion)}
    \cup {None}

\* the analyzer does not talk to the registry
InitAnalyzer ==
    /\ Init
    /\ \A s \in Subjects : reg[s] = Absent
    /\ order = <<OrdersValue, OrdersKey, UsersValue>>

Analyzed(op, input, output) ==
    /\ analysis' = [op |-> op, input |-> input, output |-> output]
    /\ UNCHANGED <<reg, order, purger, auditor, last_response>>

\* SchemaAnalyzer._convert_avro_type(avro_type)
ConvertAvroType ==
    \E avro_type \in AvroTypes :
        Analyzed("_convert_avro_type", avro_type, convert_avro_type(avro_type))

\* SchemaAnalyzer._generate_example_value(avro_type)
GenerateExampleValue ==
    \E avro_type \in AvroTypes :
        Analyzed("_generate_example_value", avro_type,
                 generate_example_value(avro_type))

NextAnalyzer ==
    \/ ConvertAvroType
    \/ GenerateExampleValue

SpecAnalyzer == InitAnalyzer /\ [][NextAnalyzer]_vars

\* the types of the fields of the schemas translated whole
FieldTypes ==
    {Str("string"), Str("long"), Str("bytes"),
     List(<<Str("null"), Str("string")>>),
     Dict([type |-> "enum", symbols |-> <<"B", "A">>]),
     List(<<Str("null"), Dict([type |-> "enum", symbols |-> <<"B", "A">>])>>),
     Dict([type |-> "long", logicalType |-> "timestamp-millis"]),
     Dict([type |-> "array", items |-> Str("long")])}

\* defaults, the falsy ones among them
Defaults == {[int |-> 0], [bool |-> FALSE], Str(""), None, Str("x")}

DefaultedTypes ==
    {Str("string"), Str("long"), List(<<Str("null"), Str("string")>>)}

WellFormedFields ==
    {Dict([name |-> "id", type |-> t]) : t \in FieldTypes}
    \cup {Dict([name |-> "id", type |-> t, default |-> d]) :
            t \in DefaultedTypes, d \in Defaults}
    \cup {Dict([name |-> "ts", type |-> t]) : t \in DefaultedTypes}
    \cup {Dict([name |-> "ts", type |-> Str("long"), default |-> [int |-> 0],
                doc |-> "event time"])}

\* a field without a name, one without a type, one that is not an object
MalformedFields ==
    {Dict([type |-> Str("string")]), Dict([name |-> "id"]), Str("id")}

RecordSchemas ==
    {Dict([type |-> "record", name |-> "Order", fields |-> fields]) :
        fields \in SeqsUpTo(WellFormedFields \cup MalformedFields, MaxFields)}
    \cup {Dict([type |-> "record", name |-> "Order", doc |-> "An order",
                fields |-> <<Dict([name |-> "id", type |-> Str("string")])>>])}

\* JSON objects that are no record schemas, and JSON that is no object
OtherObjects ==
    {EmptyDict,
     Dict([type |-> "record", name |-> "Order"]),
     Dict([type |-> "enum", name |-> "Color", symbols |-> <<"A">>])}
OtherValues == {Str("string"), List(<<Str("null"), Str("string")>>),
                [int |-> 1], None}

SchemaTexts ==
    {Json(v) : v \in RecordSchemas \cup OtherObjects \cup OtherValues}
    \cup {NotJson}

\* a schema text is at hand; nothing has been done with it yet
InitTranslate ==
    /\ InitServices
    /\ \A s \in Subjects : reg[s] = Absent
    /\ order = <<OrdersValue, OrdersKey, UsersValue>>
    /\ \E text \in SchemaTexts :
            analysis = [op |-> "none", input |-> text, output |-> None]

\* SchemaAnalyzer.avro_to_asyncapi_schema(avro_schema_str)
AvroToAsyncapiSchema ==
    Analyzed("avro_to_asyncapi_schema", analysis.input,
             avro_to_asyncapi_schema(analysis.input))

\* SchemaAnalyzer.extract_message_examples(avro_schema_str)
ExtractMessageExamples ==
    Analyzed("extract_message_examples", analysis.input,
             extract_message_examples(analysis.input))

NextTranslate ==
    \/ AvroToAsyncapiSchema
    \/ ExtractMessageExamples

SpecTranslate == InitTranslate /\ [][NextTranslate]_vars

\* the registry access layer: the listing of the engine and the two requests
\* of the inspector
NextAccess ==
    \/ GetAllSubjects
    \/ InspectorGetSchema
    \/ InspectorGetAllSubjects

SpecAccess == Init /\ [][NextAccess]_vars

-----------------------------------------------------------------------------
(* State machine of the auditor *)

\* registries for the audit: every named subject active, soft-deleted or
\* absent; either all of them unremarkable, or OrdersValue with 101 versions,
\* OrdersKey with 100 versions, level NONE and a reference to UsersValue, and
\* UsersValue with 50 versions and a schema just over 100 KB
Remarkable(s, st) ==
    IF s = OrdersValue THEN Holding(st, TooManyVersions + 1, 1, "unset", <<>>)
    ELSE IF s = OrdersKey
    THEN Holding(st, TooManyVersions, 1, "NONE", <<UsersValue>>)
    ELSE Holding(st, ManyVersions, LargeSchemaKB * 1024 + 1, "BACKWARD", <<>>)

AuditRegStates ==
    RegStates \cup
    {[s \in Subjects |-> IF st[s] = "absent" THEN Absent ELSE Remarkable(s, st[s])] :
        st \in [Subjects -> {"active", "soft", "absent"}]}

AnonStates == {[lead |-> 0, trail |-> 0], [lead |-> 0, trail |-> HighSubjectCount]}

\* a new SchemaHealthChecker, and nothing called yet
InitChecker ==
    /\ pc = "idle"
    /\ call = NoCall
    /\ subjects = <<>>
    /\ queue = <<>>
    /\ results = NoResults
    /\ filtered = <<>>
    /\ dels = <<>>
    /\ clean = TRUE
    /\ reg0 = reg
    /\ ret = NoRet
    /\ prev = NoPrev
    /\ all_listed = <<>>
    /\ versions_resp = NoAnswer
    /\ issues = <<>>
    /\ warnings = <<>>
    /\ cpc = "idle"
    /\ checks = <<>>
    /\ report = NoReport
    /\ runs = 0
    /\ earlier = NoReport
    /\ scan = NoScan
    /\ last_response = NoResponse
    /\ analysis = NoAnalysis

InitAudit ==
    /\ reg \in AuditRegStates
    /\ order \in Orders
    /\ anon \in AnonStates
    /\ InitChecker

\* registries with many subjects: the named ones follow ReferenceSample - 1 or
\* SoftDeletedShown - 1 anonymous subjects, or come before HighSubjectCount or
\* VeryHighSubjectCount of them
ManySubjects ==
    {[lead |-> 0, trail |-> 0],
     [lead |-> SoftDeletedShown - 1, trail |-> 0],
     [lead |-> ReferenceSample - 1, trail |-> 0],
     [lead |-> 0, trail |-> HighSubjectCount],
     [lead |-> 0, trail |-> VeryHighSubjectCount]}

InitAuditLarge ==
    /\ reg \in AuditRegStates
    /\ \A s \in Subjects : reg[s] = Absent \/ reg[s] = Remarkable(s, reg[s].st)
    /\ order = <<OrdersValue, OrdersKey, UsersValue>>
    /\ pc = "idle"
    /\ call = NoCall
    /\ subjects = <<>>
    /\ queue = <<>>
    /\ results = NoResults
    /\ filtered = <<>>
    /\ dels = <<>>
    /\ clean = TRUE
    /\ reg0 = reg
    /\ ret = NoRet
    /\ prev = NoPrev
    /\ all_listed = <<>>
    /\ versions_resp = NoAnswer
    /\ anon \in ManySubjects
    /\ issues = <<>>
    /\ warnings = <<>>
    /\ cpc = "idle"
    /\ checks = <<>>
    /\ report = NoReport
    /\ runs = 0
    /\ earlier = NoReport
    /\ scan = NoScan
    /\ last_response = NoResponse
    /\ analysis = NoAnalysis

\* the outcome of the request a check makes for each subject
Faults == {f \in [Subjects -> Outcomes] :
            Cardinality({s \in Subjects : f[s] # "ok"}) <= MaxFaulty}

\* a check whose ERROR escapes check_all instead of being its result
Done_Escalates(name, x, next) ==
    /\ checks' = Append(checks, [name |-> name, result |-> x.check])
    /\ issues' = x.issues
    /\ warnings' = x.warnings
    /\ cpc' = IF x.check.status = "ERROR" THEN "raised" ELSE next
    /\ scan' = NoScan
    /\ UNCHANGED <<reg, order, purger, last_response, analysis, anon, report, runs,
                   earlier>>

\* what one check leaves behind when it returns, and which check comes next
Done(name, x, next) ==
    /\ checks' = Append(checks, [name |-> name, result |-> x.check])
    /\ issues' = x.issues
    /\ warnings' = x.warnings
    /\ cpc' = next
    /\ scan' = NoScan
    /\ UNCHANGED <<reg, order, purger, last_response, analysis, anon, report, runs,
                   earlier>>

\* a check has its listing and enters its loop
Scanning(names, loop) ==
    /\ scan' = [NoScan EXCEPT !.rest = names]
    /\ cpc' = loop
    /\ UNCHANGED <<reg, order, purger, last_response, analysis, anon, issues, warnings,
                   checks, report, runs, earlier>>

\* what the loop body works on
Locals ==
    [found |-> scan.found, issues |-> issues, warnings |-> warnings,
     rest |-> scan.rest, refs |-> scan.refs]

\* within one check at most MaxFaulty requests for a subject fail
MayFail(o) == o # "ok" => scan.faulty < MaxFaulty

\* one request of the loop has been made and the code after it has run
Scanned(x, o) ==
    /\ issues' = x.issues
    /\ warnings' = x.warnings
    /\ scan' = [found |-> x.found, rest |-> x.rest, refs |-> x.refs,
                faulty |-> IF o = "ok" THEN scan.faulty ELSE scan.faulty + 1]
    /\ UNCHANGED <<reg, order, purger, last_response, analysis, anon, cpc, checks,
                   report, runs, earlier>>

\* the health route of the service and the command line: a new
\* SchemaHealthChecker (issues = [], warnings = []), then its check_all()
HealthCheck ==
    /\ cpc = "idle"
    /\ issues' = <<>>
    /\ warnings' = <<>>
    /\ runs' = 1
    /\ checks' = <<>>
    /\ cpc' = "connectivity"
    /\ report' = NoReport
    /\ earlier' = NoReport
    /\ UNCHANGED <<reg, order, purger, last_response, analysis, anon, scan>>

CheckConnectivity ==
    /\ cpc = "connectivity"
    /\ \E o \in ConnOutcomes :
        Done("connectivity",
             check_connectivity(reg, order, anon, issues, warnings, o),
             "subject_count")

CheckSubjectCount ==
    /\ cpc = "subject_count"
    /\ \E o \in Outcomes :
        Done("subject_count",
             check_subject_count(reg, order, anon, issues, warnings, o),
             "version_explosion")

\* _check_version_explosion: the listing, ...
CheckVersionExplosion ==
    /\ cpc = "version_explosion"
    /\ \E o \in Outcomes :
        LET response == GetSubjects(reg, order, FALSE, o)
        IN  IF response.exc
            THEN Done("version_explosion", Checked(CheckError, issues, warnings),
                      "large_schemas")
            ELSE Scanning(version_explosion_names(response), "version_explosion_scan")

\* ... the request for one subject, ...
ScanVersions ==
    /\ cpc = "version_explosion_scan"
    /\ scan.rest # <<>>
    /\ \E o \in Outcomes :
        /\ MayFail(o)
        /\ Scanned(scan_versions(reg, o, Locals), o)

\* ... and the return
VersionExplosionDone ==
    /\ cpc = "version_explosion_scan"
    /\ scan.rest = <<>>
    /\ Done("version_explosion", version_explosion_result(Locals), "large_schemas")

\* _check_large_schemas: the listing, ...
CheckLargeSchemas ==
    /\ cpc = "large_schemas"
    /\ \E o \in Outcomes :
        LET response == GetSubjects(reg, order, FALSE, o)
        IN  IF response.exc \/ response.status # 200
            THEN Done("large_schemas", Checked(CheckError, issues, warnings),
                      "compatibility")
            ELSE Scanning(SampledNames(response.body, anon, LargeSchemaSample),
                          "large_schemas_scan")

\* ... the request for one subject, ...
ScanSizes ==
    /\ cpc = "large_schemas_scan"
    /\ scan.rest # <<>>
    /\ \E o \in Outcomes :
        /\ MayFail(o)
        /\ Scanned(scan_sizes(reg, o, Locals), o)

\* ... and the return
LargeSchemasDone ==
    /\ cpc = "large_schemas_scan"
    /\ scan.rest = <<>>
    /\ Done("large_schemas", large_schemas_result(Locals), "compatibility")

\* _check_compatibility_config: GET /config, ...
CheckCompatibilityConfig ==
    /\ cpc = "compatibility"
    /\ \E og \in Outcomes :
        IF GetGlobalConfig(reg, og).exc
        THEN Done("compatibility", Checked(CheckError, issues, warnings),
                  "soft_deleted")
        ELSE /\ cpc' = "compatibility_listing"
             /\ UNCHANGED <<reg, order, purger, last_response, analysis, anon, issues,
                            warnings, checks, report, runs, earlier, scan>>

\* ... the listing, ...
CompatibilityListing ==
    /\ cpc = "compatibility_listing"
    /\ \E o \in Outcomes :
        LET response == GetSubjects(reg, order, FALSE, o)
        IN  IF response.exc \/ response.status # 200
            THEN Done("compatibility", Checked(CheckError, issues, warnings),
                      "soft_deleted")
            ELSE Scanning(SampledNames(response.body, anon, CompatibilitySample),
                          "compatibility_scan")

\* ... the request for one subject, ...
ScanConfigs ==
    /\ cpc = "compatibility_scan"
    /\ scan.rest # <<>>
    /\ \E o \in Outcomes :
        /\ MayFail(o)
        /\ Scanned(scan_configs(reg, o, Locals), o)

\* ... and the return
CompatibilityDone ==
    /\ cpc = "compatibility_scan"
    /\ scan.rest = <<>>
    /\ Done("compatibility", compatibility_result(Locals), "soft_deleted")

CheckSoftDeleted ==
    /\ cpc = "soft_deleted"
    /\ \E o \in Outcomes :
        Done("soft_deleted",
             check_soft_deleted(reg, order, anon, issues, warnings, o),
             "orphaned_refs")

\* _check_orphaned_references: the listing, ...
CheckOrphanedReferences ==
    /\ cpc = "orphaned_refs"
    /\ \E o \in Outcomes :
        LET response == GetSubjects(reg, order, FALSE, o)
        IN  IF response.exc \/ response.status # 200
            THEN Done("orphaned_refs", Checked(CheckError, issues, warnings),
                      "summary")
            ELSE Scanning(SampledNames(response.body, anon, ReferenceSample),
                          "orphaned_refs_scan")

\* ... the request for the latest version of one subject, ...
ScanReferences ==
    /\ cpc = "orphaned_refs_scan"
    /\ scan.rest # <<>>
    /\ scan.refs = <<>>
    /\ \E o \in Outcomes :
        /\ MayFail(o)
        /\ Scanned(scan_references(reg, o, Locals), o)

\* ... the request that looks one of its references up, ...
LookupReference ==
    /\ cpc = "orphaned_refs_scan"
    /\ scan.refs # <<>>
    /\ \E g \in Outcomes :
        Scanned(lookup_reference(reg, g, Locals), "ok")

\* ... and the return
OrphanedReferencesDone ==
    /\ cpc = "orphaned_refs_scan"
    /\ scan.rest = <<>>
    /\ Done("orphaned_refs", orphaned_references_result(Locals), "summary")

\* results["summary"] = {...}; return results
CheckAllReturn ==
    /\ cpc = "summary"
    /\ report' = [checks |-> checks, summary |-> Summary(issues, warnings)]
    /\ cpc' = "idle"
    /\ UNCHANGED <<reg, order, purger, last_response, analysis, anon, issues, warnings,
                   checks, runs, earlier, scan>>

\* check_all, once called, up to its return
RunningCheckAll ==
    \/ CheckConnectivity
    \/ CheckSubjectCount
    \/ CheckVersionExplosion
    \/ ScanVersions
    \/ VersionExplosionDone
    \/ CheckLargeSchemas
    \/ ScanSizes
    \/ LargeSchemasDone
    \/ CheckCompatibilityConfig
    \/ CompatibilityListing
    \/ ScanConfigs
    \/ CompatibilityDone
    \/ CheckSoftDeleted
    \/ CheckOrphanedReferences
    \/ ScanReferences
    \/ LookupReference
    \/ OrphanedReferencesDone
    \/ CheckAllReturn

\* every audit on a checker of its own
NextAudit ==
    \/ HealthCheck
    \/ RunningCheckAll

SpecAudit == InitAudit /\ [][NextAudit]_vars

SpecAuditLarge == InitAuditLarge /\ [][NextAudit]_vars

\* check_all() once more on the SchemaHealthChecker that has run it: the
\* lists are those the constructor made, nothing resets them
CheckAll ==
    /\ cpc = "idle"
    /\ report # NoReport
    /\ runs < MaxRuns
    /\ runs' = runs + 1
    /\ earlier' = report
    /\ report' = NoReport
    /\ checks' = <<>>
    /\ cpc' = "connectivity"
    /\ UNCHANGED <<reg, order, purger, last_response, analysis, anon, issues, warnings,
                   scan>>

\* audits repeated on one checker
NextRepeat ==
    \/ NextAudit
    \/ CheckAll

\* a registry whose only subject has too many versions, and one where a
\* subject refers to it; what the requests get varies
InitRepeat ==
    /\ anon = [lead |-> 0, trail |-> 0]
    /\ order = <<OrdersValue, OrdersKey, UsersValue>>
    /\ \E referred \in BOOLEAN :
        reg = [s \in Subjects |->
                IF s = OrdersValue THEN Remarkable(s, "active")
                ELSE IF s = UsersValue /\ referred
                THEN Holding("active", 1, 1, "unset", <<OrdersValue>>)
                ELSE Absent]
    /\ InitChecker

SpecRepeat == InitRepeat /\ [][NextRepeat]_vars

\* The whole engine.  A behaviour follows one caller: one that runs the bulk
\* operations of a SchemaPurger, one that runs its other operations, or one
\* that audits the registry.  The callers share nothing but the registry, and
\* each starts from the same registries.
BulkOperations == {"bulk_soft_delete", "bulk_hard_delete"}

NextEngine ==
    \/ /\ runs = 0
       /\ call.op \notin BulkOperations
       /\ \/ NextSingle
          \/ DeleteSubjectVersion
          \/ NextPurge
          \/ NextFilter
    \/ /\ runs = 0
       /\ call.op \in BulkOperations \cup {"none"}
       /\ NextBulk
    \/ /\ call = NoCall
       /\ NextAudit

\* an active subject, a soft-deleted one and one the registry does not hold
InitEngine ==
    /\ InitBulk
    /\ reg[OrdersValue].st = "active"
    /\ reg[OrdersKey].st = "absent"
    /\ reg[UsersValue].st = "soft"

SpecEngine == InitEngine /\ [][NextEngine]_vars

\* the audits of the registries that hold something remarkable
InitAuditLive ==
    /\ InitAudit
    /\ order = <<OrdersValue, OrdersKey, UsersValue>>
    /\ \A s \in Subjects : reg[s] = Absent \/ reg[s] = Remarkable(s, reg[s].st)

\* check_all is straight-line code: once called, it runs its checks one after
\* the other, and every request of a check carries a timeout
SpecAuditLive == InitAuditLive /\ [][NextAudit]_vars /\ WF_vars(RunningCheckAll)

\* One operation, the first made on the purger or on a checker, on a registry
\* it shares with another client.  The audits are those of the remarkable
\* registry.
NextConcurrent ==
    \/ /\ pc = "idle" => call = NoCall
       /\ runs = 0
       /\ \/ NextSingle
          \/ DeleteSubjectVersion
          \/ NextPurge
          \/ NextFilter
          \/ NextBulk
    \/ /\ call = NoCall
       /\ cpc = "idle" => (runs = 0 /\ reg0 \notin RegStates)
       /\ NextAudit
    \/ ClientRegister
    \/ ClientSoftDelete
    \/ ClientRestore

\* registries of the purger that hold a soft-deleted subject and lack another,
\* and the remarkable one with every subject active
InitConcurrent ==
    /\ InitAudit
    /\ anon = [lead |-> 0, trail |-> 0]
    /\ order = <<OrdersValue, OrdersKey, UsersValue>>
    /\ \/ /\ reg \in RegStates
          /\ reg[OrdersKey].st = "absent"
          /\ reg[UsersValue].st = "soft"
       \/ reg = [s \in Subjects |-> Remarkable(s, "active")]

SpecConcurrent == InitConcurrent /\ [][NextConcurrent]_vars

-----------------------------------------------------------------------------
(* Properties of the single-subject operations (SpecSingle) *)

Target == call.subjects[1]
IsListed(s, deleted) == s \in Range(ListedSubjects(reg, order, deleted))
DidSoft == pc = "idle" /\ call.op = "soft_delete_subject"
DidHard == pc = "idle" /\ call.op = "hard_delete_subject"

\* C9: soft_delete_subject never raises; answered 200 it returns success with
\* the deleted version numbers and the subject is hidden from the default
\* listing but still in the deleted=true listing; on a non-200 response or a
\* transport exception it returns success false with an error text.
C9_SoftDeleteOutcome ==
    DidSoft =>
        /\ ret.kind = "return"
        /\ Len(dels) = 1
        /\ IF ~dels[1].exc /\ dels[1].status = 200
           THEN /\ ret.value.success
                /\ ret.value.deleted_versions = VersionsOf(reg0[Target])
                /\ ~IsListed(Target, FALSE)
                /\ IsListed(Target, TRUE)
           ELSE /\ ~ret.value.success
                /\ ret.value.error # NoError

C9_Witness ==
    /\ DidSoft
    /\ dels[1].status = 200
    /\ ret.value.success
    /\ Len(ret.value.deleted_versions) > 1

\* C7 as claimed: whatever the soft-delete step yields, a transport failure
\* included, the permanent delete is issued and success <=> it is answered 200.
C7_Original ==
    DidHard =>
        /\ Len(dels) = 2
        /\ dels[2].permanent
        /\ ret.value.success <=> (~dels[2].exc /\ dels[2].status = 200)

\* C7 amended: whatever HTTP response the soft-delete step gets (200 or not),
\* the permanent delete is issued and success <=> it is answered 200; when the
\* soft-delete request raises, no permanent delete is issued and the result is
\* a failure.
C7_SoftStepIgnored ==
    DidHard =>
        IF dels[1].exc
        THEN Len(dels) = 1 /\ ~ret.value.success
        ELSE /\ Len(dels) = 2
             /\ dels[2].permanent /\ dels[2].subject = Target
             /\ ret.value.success <=> (~dels[2].exc /\ dels[2].status = 200)

C7_Witness ==
    /\ DidHard
    /\ ~dels[1].exc /\ dels[1].status # 200
    /\ Len(dels) = 2 /\ dels[2].status = 200
    /\ ret.value.success

\* C8: the plain DELETE always precedes the permanent one, so on an existing
\* subject (active or soft-deleted), every request answered by the registry,
\* hard_delete_subject succeeds and the subject is in neither listing.
C8_HardDeleteRemoves ==
    DidHard =>
        /\ ~dels[1].permanent /\ dels[1].subject = Target
        /\ Len(dels) = 2 => dels[2].permanent
        /\ (clean /\ reg0[Target].st # "absent") =>
                /\ ret.value.success
                /\ ~IsListed(Target, FALSE)
                /\ ~IsListed(Target, TRUE)

C8_Witness ==
    /\ DidHard
    /\ clean
    /\ reg0[Target].st = "active"
    /\ ret.value.success
    /\ reg[Target].st = "absent"

\* C10 as claimed: the second of two successive applications to the same
\* subject leaves the registry as the first left it and reports what the first
\* reported.
C10_Original ==
    ((DidSoft \/ DidHard) /\ prev.repeat) =>
        /\ reg = reg0
        /\ ret = prev.ret

\* C10 amended: when no request of the first application met a fault (HTTP
\* 500 or a timeout), the second application leaves the registry as the first
\* left it and reports failure (the subject is by then soft-deleted or absent), so
\* its outcome is the first one's only when the first failed.
C10_Idempotent ==
    ((DidSoft \/ DidHard) /\ prev.repeat /\ prev.clean) =>
        /\ reg = reg0
        /\ ~ret.value.success
        /\ (~prev.ret.value.success /\ clean) => ret = prev.ret

C10_Witness ==
    /\ DidHard
    /\ prev.repeat /\ prev.clean /\ clean
    /\ prev.ret.value.success
    /\ ~ret.value.success

-----------------------------------------------------------------------------
(* Properties of the bulk operations (SpecBulk) *)

DidBulkSoft == pc = "idle" /\ call.op = "bulk_soft_delete"
DidBulkHard == pc = "idle" /\ call.op = "bulk_hard_delete"

\* the subjects of a list of per-subject results
SubjectsOf(rs) == [i \in 1..Len(rs) |-> rs[i].subject]

\* the elements of seq at the positions keep marks, in order
PickMarked(seq, keep) ==
    LET F[i \in 0..Len(seq)] ==
            IF i = 0 THEN <<>>
            ELSE IF keep[i] THEN Append(F[i - 1], seq[i]) ELSE F[i - 1]
    IN  F[Len(seq)]

\* `input` split, position by position, into the two lists
SplitsInto(input, successful, failed) ==
    \E keep \in [1..Len(input) -> BOOLEAN] :
        /\ SubjectsOf(successful) = PickMarked(input, keep)
        /\ SubjectsOf(failed) = PickMarked(input, [i \in 1..Len(input) |-> ~keep[i]])

\* C2: the result of bulk_soft_delete and bulk_hard_delete satisfies
\* success_count + failure_count = total = length of the input list; for the
\* empty list the three counts are zero.
C2_BulkAccounting ==
    (DidBulkSoft \/ DidBulkHard) =>
        /\ ret.kind = "return"
        /\ ret.value.success_count + ret.value.failure_count = ret.value.total
        /\ ret.value.total = Len(call.subjects)
        /\ ret.value.success_count = Len(ret.value.successful)
        /\ ret.value.failure_count = Len(ret.value.failed)
        /\ call.subjects = <<>> =>
                /\ ret.value.total = 0
                /\ ret.value.success_count = 0
                /\ ret.value.failure_count = 0

C2_Witness ==
    /\ DidBulkHard
    /\ Len(call.subjects) = 2
    /\ call.subjects[1] = call.subjects[2]
    /\ ret.value.success_count = 1
    /\ ret.value.failure_count = 1

\* C3: every subject of the input list is attempted exactly once, in input
\* order, also after earlier failures; each lands in exactly one of the two
\* lists; a subject reported deleted stays deleted (no rollback).
C3_BulkBestEffort ==
    /\ DidBulkSoft =>
        /\ [i \in 1..Len(dels) |-> dels[i].subject] = call.subjects
        /\ SplitsInto(call.subjects, ret.value.successful, ret.value.failed)
        /\ \A i \in 1..Len(ret.value.successful) :
                reg[ret.value.successful[i].subject].st # "active"
    /\ DidBulkHard =>
        /\ SubjectsOf(SelectSeq(dels, LAMBDA d : ~d.permanent)) = call.subjects
        /\ SplitsInto(call.subjects, ret.value.successful, ret.value.failed)
        /\ \A i \in 1..Len(ret.value.successful) :
                reg[ret.value.successful[i].subject].st = "absent"
    /\ pc = "bulk_soft" =>
        \A i \in 1..Len(results.successful) :
            reg[results.successful[i].subject].st # "active"
    /\ pc = "bulk_hard" =>
        \A i \in 1..Len(results.successful) :
            reg[results.successful[i].subject].st = "absent"

C3_Witness ==
    /\ DidBulkSoft
    /\ Len(call.subjects) = 2
    /\ call.subjects[1] # call.subjects[2]
    /\ SubjectsOf(ret.value.failed) = <<call.subjects[1]>>
    /\ ret.value.failed[1].error = Raised
    /\ SubjectsOf(ret.value.successful) = <<call.subjects[2]>>

-----------------------------------------------------------------------------
(* Properties of purge_soft_deleted (SpecPurge) *)

DidPurge == pc = "idle" /\ call.op = "purge_soft_deleted"
SoftDeletedIn(r) == {s \in Subjects : r[s].st = "soft"}

\* the soft-deleted subjects of the registry a call starts on, in listing
\* order
Remaining == SelectSeq(order, LAMBDA s : reg0[s].st = "soft")

\* the subjects a purge reports it could not delete
ReportedFailed(v) ==
    IF "failed" \in DOMAIN v THEN Range(SubjectsOf(v.failed)) ELSE {}

\* C4 as claimed: the second of two successive purges returns the zero-count
\* result and issues no delete request (read for a second call that gets its
\* two listings).
C4_Original ==
    (DidPurge /\ prev.repeat /\ ret.value # PurgeError) =>
        /\ ret.value = NothingToPurge
        /\ dels = <<>>

\* C4 amended: the second of two successive purges purges what the first left
\* behind.  The subjects still soft-deleted after a first call that got its
\* two listings are the ones it reported failed (none after the zero-count
\* result or failure_count = 0).  A second call that gets its two listings
\* returns the zero-count result and issues no delete request exactly when
\* nothing is left; otherwise it attempts the hard deletion of exactly the
\* subjects left, in listing order, returns the bulk result for them, and
\* without a fault of its own deletes them all.  A second call that misses a
\* listing issues no delete request and returns the error result.
C4_PurgeTwice ==
    (DidPurge /\ prev.repeat) =>
        /\ prev.ret.kind = "return"
        /\ prev.ret.value # PurgeError =>
                SoftDeletedIn(reg0) = ReportedFailed(prev.ret.value)
        /\ IF ret.value = PurgeError
           THEN /\ dels = <<>>
                /\ ~clean
                /\ reg = reg0
           ELSE /\ SubjectsOf(SelectSeq(dels, LAMBDA d : ~d.permanent)) = Remaining
                /\ (ret.value = NothingToPurge) <=> (Remaining = <<>>)
                /\ Remaining = <<>> => dels = <<>>
                /\ Remaining # <<>> =>
                    /\ "total" \in DOMAIN ret.value
                    /\ ret.value.total = Len(Remaining)
                    /\ SoftDeletedIn(reg) = ReportedFailed(ret.value)
                    /\ clean =>
                        /\ SubjectsOf(ret.value.successful) = Remaining
                        /\ \A s \in SoftDeletedIn(reg0) : reg[s].st = "absent"

C4_Witness ==
    /\ DidPurge
    /\ prev.repeat
    /\ "failure_count" \in DOMAIN prev.ret.value
    /\ prev.ret.value.success_count = 1
    /\ prev.ret.value.failure_count = 1
    /\ clean
    /\ "failure_count" \in DOMAIN ret.value
    /\ SubjectsOf(ret.value.successful) = SubjectsOf(prev.ret.value.failed)
    /\ SoftDeletedIn(reg) = {}

\* C5: purge_soft_deleted hands bulk_hard_delete exactly the subjects listed
\* with deleted=true and not listed by default (the soft-deleted subjects, in
\* listing order); when there is none it returns the zero-count success and
\* issues no delete request.
C5_PurgeDifference ==
    /\ (call.op = "purge_soft_deleted" /\ pc = "bulk_hard") =>
        /\ Range(subjects) = SoftDeletedIn(reg0)
        /\ Len(subjects) = Cardinality(SoftDeletedIn(reg0))
        /\ subjects = SelectSeq(order, LAMBDA s : reg0[s].st = "soft")
        /\ results.total = Len(subjects)
    /\ (DidPurge /\ SoftDeletedIn(reg0) = {}) =>
        /\ dels = <<>>
        /\ IF clean THEN ret.value = NothingToPurge ELSE ret.value = PurgeError
    /\ (DidPurge /\ ret.value = NothingToPurge) => SoftDeletedIn(reg0) = {}
    /\ (DidPurge /\ SoftDeletedIn(reg0) # {} /\ clean) =>
        /\ "total" \in DOMAIN ret.value
        /\ SubjectsOf(ret.value.successful)
                = SelectSeq(order, LAMBDA s : reg0[s].st = "soft")

C5_Witness ==
    /\ call.op = "purge_soft_deleted"
    /\ pc = "bulk_hard"
    /\ Len(subjects) = 2
    /\ queue = subjects
    /\ \E s \in Subjects : reg0[s].st = "active"

-----------------------------------------------------------------------------
(* Properties of get_subjects_by_filter (SpecFilter) *)

DidFilter == pc = "idle" /\ call.op = "get_subjects_by_filter" /\ ret.kind = "return"

\* what the claim says the filter lets through
Passes(s) ==
    /\ call.min_versions = <<>> \/ reg[s].nver >= call.min_versions[1]
    /\ call.pattern = <<>> \/ IsSubstring(call.pattern[1], s)

Expected == SelectSeq(ListedSubjects(reg, order, FALSE), Passes)

\* a is b with some elements left out
IsSubSeqOf(a, b) ==
    \E keep \in [1..Len(b) -> BOOLEAN] : a = PickMarked(b, keep)

\* C6 as claimed: the result is exactly the listed subjects, in listing order,
\* that have at least min_versions versions and contain the pattern.
C6_Original == DidFilter => ret.value = Expected

\* C6 amended: the version count compared with min_versions is the one
\* get_subject_details obtained, which is 0 when one of its fetches fails; so
\* the result is always a part of the claimed list, in listing order, and is
\* exactly the claimed list when no request met a fault (HTTP 500 or a
\* timeout) or min_versions is unset.
C6_FilterConjunction ==
    DidFilter =>
        /\ IsSubSeqOf(ret.value, Expected)
        /\ (clean \/ call.min_versions = <<>>) => ret.value = Expected
        /\ (/\ call.pattern = <<<<"o">>>> /\ call.min_versions = <<>>
            /\ order = <<OrdersValue, OrdersKey, UsersValue>>
            /\ \A s \in Subjects : reg[s].st = "active")
                => ret.value = <<OrdersValue, OrdersKey>>
        /\ (/\ call.pattern = <<<<"v">>>> /\ call.min_versions = <<3>> /\ clean
            /\ order = <<OrdersValue, OrdersKey, UsersValue>>
            /\ \A s \in Subjects : reg[s].st = "active")
                => ret.value = <<OrdersValue, UsersValue>>

C6_Witness ==
    /\ DidFilter
    /\ clean
    /\ call.pattern = <<<<"o">>>>
    /\ call.min_versions = <<3>>
    /\ \A s \in Subjects : reg[s].st = "active"
    /\ ret.value = <<OrdersValue>>

-----------------------------------------------------------------------------
(* Properties of get_subject_details (SpecSingle) *)

DidDetails == pc = "idle" /\ call.op = "get_subject_details"

\* C11: get_subject_details never raises, and whenever one of its two fetches
\* fails for the subject (the request raises, or the response is not 200: a
\* 500, or the 404 of a subject that is not active) the details object it
\* returns carries an error field.
C11_DetailsError ==
    DidDetails =>
        /\ ret.kind = "return"
        /\ (~clean \/ reg0[Target].st # "active") => "error" \in DOMAIN ret.value

-----------------------------------------------------------------------------
(* Properties of the registry access layer (SpecAccess) *)

\* the last request was answered with a status that is neither 2xx nor 404
ErrorStatus ==
    /\ ~last_response.exc
    /\ last_response.status >= 300
    /\ last_response.status # 404

\* C19: in the registry access layer a response that is not 2xx and not 404
\* is surfaced to the caller as a failure, distinguishable from the "absent"
\* outcome of a 404: fetching a schema never reports it as "not found", and
\* listing subjects never reports it as an empty list.
C19_ErrorStatusSurfaced ==
    /\ (pc = "idle" /\ call.op = "ConfluentInspector._get_schema" /\ ErrorStatus)
        => (ret.kind = "raise" \/ ret.value # None)
    /\ (/\ pc = "idle"
        /\ call.op \in {"ConfluentInspector.get_all_subjects", "get_all_subjects"}
        /\ ErrorStatus)
        => (ret.kind = "raise" \/ ret.value # <<>>)

-----------------------------------------------------------------------------
(* Properties of the schema analyzer (SpecAnalyzer) *)

Converted == analysis.op = "_convert_avro_type"
Generated == analysis.op = "_generate_example_value"

\* the table of the primitive kinds: descriptive node and example literal
PrimitiveNode(kind) ==
    CASE kind = "string" -> [type |-> "string"]
      [] kind = "int" -> [type |-> "integer"]
      [] kind = "long" -> [type |-> "integer", format |-> "int64"]
      [] kind = "float" -> [type |-> "number", format |-> "float"]
      [] kind = "double" -> [type |-> "number", format |-> "double"]
      [] kind = "boolean" -> [type |-> "boolean"]
      [] kind = "bytes" -> [type |-> "string", contentEncoding |-> "base64"]
      [] kind = "null" -> [type |-> "null"]

PrimitiveExample(kind) ==
    CASE kind = "string" -> Str("example-string")
      [] kind = "int" -> [int |-> 42]
      [] kind = "long" -> [int |-> 1234567890]
      [] kind = "float" -> [float |-> "3.14"]
      [] kind = "double" -> [float |-> "3.14159"]
      [] kind = "boolean" -> [bool |-> TRUE]
      [] kind = "bytes" -> Str("base64-encoded-data")
      [] kind = "null" -> None

\* C20: for each of the eight primitive kinds _convert_avro_type returns the
\* fixed node of the table and _generate_example_value the fixed literal of
\* the kind; any other type name yields the generic string node and the
\* placeholder example.
C20_PrimitiveTable ==
    /\ (Converted /\ IsStr(analysis.input)) =>
        analysis.output = IF analysis.input.str \in Primitives
                          THEN PrimitiveNode(analysis.input.str)
                          ELSE [type |-> "string"]
    /\ (Generated /\ IsStr(analysis.input)) =>
        analysis.output = IF analysis.input.str \in Primitives
                          THEN PrimitiveExample(analysis.input.str)
                          ELSE Str("example")

\* long has been translated: an integer with the 64-bit hint
C20_Witness ==
    /\ Converted
    /\ analysis.input = Str("long")
    /\ analysis.output = [type |-> "integer", format |-> "int64"]

\* the members of a union that are not the type name "null", and the first
\* of them
NonNullPositions(members) ==
    {i \in 1..Len(members) : members[i] # Str("null")}

FirstNonNull(members) ==
    members[CHOOSE i \in NonNullPositions(members) :
                \A j \in NonNullPositions(members) : i <= j]

\* C21: the translation of a union (node and example) is the translation of
\* its first non-null member, wherever "null" stands in the union; a union
\* with no non-null member yields the null node and a null example.
C21_UnionFirstNonNull ==
    /\ (Converted /\ IsList(analysis.input)) =>
        analysis.output =
            IF NonNullPositions(analysis.input.list) = {}
            THEN [type |-> "null"]
            ELSE convert_avro_type(FirstNonNull(analysis.input.list))
    /\ (Generated /\ IsList(analysis.input)) =>
        analysis.output =
            IF NonNullPositions(analysis.input.list) = {}
            THEN None
            ELSE generate_example_value(FirstNonNull(analysis.input.list))

\* the example of ["null", "long"] is the example of long
C21_Witness ==
    /\ Generated
    /\ analysis.input = List(<<Str("null"), Str("long")>>)
    /\ analysis.output = [int |-> 1234567890]

-----------------------------------------------------------------------------
(* Properties of the translation of whole schemas (SpecTranslate) *)

Schemed == analysis.op = "avro_to_asyncapi_schema"
Exampled == analysis.op = "extract_message_examples"

\* the fields of the schema at hand, when the loop over them goes through
InputFields ==
    IF SchemaRaises(analysis.input) THEN <<>> ELSE FieldsOf(analysis.input)

\* no two fields of the schema at hand have the same name
DistinctNames ==
    \A i, j \in 1..Len(InputFields) :
        InputFields[i].dict.name = InputFields[j].dict.name => i = j

\* a union with null among its members
Nullable(avro_type) ==
    /\ IsList(avro_type)
    /\ \E i \in 1..Len(avro_type.list) : avro_type.list[i] = Str("null")

\* C22: a record field whose type is a union containing null is not listed
\* in required by avro_to_asyncapi_schema.
C22_NullableNotRequired ==
    (Schemed /\ ~SchemaRaises(analysis.input)) =>
        \A i \in 1..Len(InputFields) :
            Nullable(InputFields[i].dict.type) =>
                InputFields[i].dict.name \notin Range(analysis.output.required)

\* C23: a field that declares a default, falsy or not, is not listed in
\* required and its example is the default verbatim; a field that declares
\* none is listed in required and its example is the one generated for its
\* type.  Field names are those of a record: distinct.
C23_DefaultsVerbatim ==
    (~SchemaRaises(analysis.input) /\ DistinctNames) =>
        \A i \in 1..Len(InputFields) :
            LET f == InputFields[i].dict
                declared == "default" \in DOMAIN f
            IN  /\ Schemed =>
                    (f.name \in Range(analysis.output.required) <=> ~declared)
                /\ Exampled =>
                    analysis.output[f.name] =
                        IF declared THEN f.default
                        ELSE generate_example_value(f.type)

\* a string field with default 0: its example is 0
C23_Witness ==
    /\ Exampled
    /\ analysis.input = Json(Dict([type |-> "record", name |-> "Order",
            fields |-> <<Dict([name |-> "id", type |-> Str("string"),
                               default |-> [int |-> 0]]),
                         Dict([name |-> "ts", type |-> Str("long")])>>]))
    /\ analysis.output = ("id" :> [int |-> 0]) @@ ("ts" :> [int |-> 1234567890])

\* an enum type
IsEnum(avro_type) ==
    IsDict(avro_type) /\ DictGet(avro_type.dict, "type", "None") = "enum"

\* C24: an enum translates to a string node with exactly its symbol list,
\* and its example is its first symbol; without symbols the example is the
\* placeholder, never the empty string.
C24_EnumSymbols ==
    IsEnum(analysis.input) =>
        LET d == analysis.input.dict
            none == "symbols" \notin DOMAIN d \/ d.symbols = <<>>
        IN  /\ Converted =>
                /\ analysis.output.type = "string"
                /\ analysis.output.enum = IF none THEN <<>> ELSE d.symbols
                /\ DOMAIN analysis.output = {"type", "enum"}
            /\ Generated =>
                /\ analysis.output =
                        IF none THEN Str("ENUM_VALUE") ELSE Str(d.symbols[1])
                /\ analysis.output # Str("")

\* the example of the enum of B and A is B
C24_Witness ==
    /\ Generated
    /\ analysis.input = Dict([type |-> "enum", symbols |-> <<"B", "A">>])
    /\ analysis.output = Str("B")

\* a JSON object that is a record
IsRecord(value) ==
    IsDict(value) /\ DictGet(value.dict, "type", "None") = "record"

\* malformed input: not JSON, JSON that is not a record object, a field
\* lacking name or type
Malformed(text) ==
    \/ ~IsJson(text)
    \/ ~IsRecord(text.json)
    \/ SchemaRaises(text)

\* C25: on malformed input the schema result is the generic object node
\* with a non-empty diagnostic description and the example result is the
\* empty mapping.
C25_MalformedDegrades ==
    Malformed(analysis.input) =>
        /\ Schemed =>
            /\ DOMAIN analysis.output = {"type", "description"}
            /\ analysis.output.type = "object"
            /\ analysis.output.description # ""
        /\ Exampled => analysis.output = <<>>

\* the hints of a node
Hints == {"type", "format", "contentEncoding", "items", "enum"}
HintsOf(node) == [k \in Hints \cap DOMAIN node |-> node[k]]

\* C26: the property emitted for a field carries the type and the hints of
\* the translator's node for the field's type.
C26_PropertyKeepsHints ==
    (Schemed /\ ~SchemaRaises(analysis.input) /\ DistinctNames) =>
        \A i \in 1..Len(InputFields) :
            LET f == InputFields[i].dict
            IN  HintsOf(analysis.output.properties[f.name])
                    = HintsOf(convert_avro_type(f.type))

-----------------------------------------------------------------------------
(* Properties of check_all (SpecAudit) *)

\* check_all has returned and its report is in the caller's hands
Reported == cpc = "idle" /\ report.checks # <<>>

StatusOf(name) ==
    LET i == CHOOSE i \in 1..Len(report.checks) : report.checks[i].name = name
    IN  report.checks[i].result.status

SevenChecks ==
    <<"connectivity", "subject_count", "version_explosion", "large_schemas",
      "compatibility", "soft_deleted", "orphaned_refs">>

\* the report has a result for each of the seven checks, and a summary
Complete ==
    /\ Len(report.checks) = 7
    /\ \A i \in 1..7 :
        /\ report.checks[i].name = SevenChecks[i]
        /\ report.checks[i].result.status \in {"OK", "WARNING", "CRITICAL", "ERROR"}
    /\ report.summary.status \in {"CRITICAL", "WARNING", "OK"}

\* C12: check_all always terminates and returns a report with a result for
\* each of the seven checks and a summary, whichever requests fail; a failure
\* inside one check never keeps the later checks from running.
C12_AlwaysCompletes ==
    /\ [](Reported => Complete)
    /\ (cpc # "idle") ~> Reported

\* every listing request of the audit failed
C12_Witness ==
    /\ Reported
    /\ StatusOf("connectivity") = "CRITICAL"
    /\ \A i \in 2..7 : report.checks[i].result.status = "ERROR"

\* C13: if the GET /subjects of the connectivity check fails in any way
\* (timeout, connection error, HTTP error status), the check reports CRITICAL
\* and appends one issue, and the report is CRITICAL overall even when no other
\* check records an issue.
C13_ConnectivityFailure ==
    /\ cpc = "connectivity" =>
        \A o \in ConnOutcomes \ {"ok"} :
            LET x == check_connectivity(reg, order, anon, issues, warnings, o)
            IN  /\ x.check.status = "CRITICAL"
                /\ Len(x.issues) = Len(issues) + 1
                /\ SubSeq(x.issues, 1, Len(issues)) = issues
                /\ x.issues[Len(x.issues)].kind = "Connectivity"
                /\ x.warnings = warnings
    /\ (cpc # "connectivity" /\ checks # <<>> /\ checks[1].result.status = "CRITICAL") =>
        /\ issues # <<>>
        /\ issues[1].kind = "Connectivity"
    /\ (Reported /\ StatusOf("connectivity") = "CRITICAL") =>
        report.summary.status = "CRITICAL"

\* the connectivity check failed on an error status and is alone in
\* recording an issue
C13_Witness ==
    /\ Reported
    /\ StatusOf("connectivity") = "CRITICAL"
    /\ report.checks[1].result.message = "HTTPError"
    /\ Len(issues) = 1
    /\ StatusOf("version_explosion") = "OK"
    /\ StatusOf("orphaned_refs") = "OK"
    /\ report.summary.status = "CRITICAL"

\* C14: a check that ends with status ERROR leaves the issues and warnings
\* lists as they were before it ran, so a report in which no check recorded
\* an issue or a warning (checks ended OK or in ERROR) has overall status OK.
C14_ErrorLeavesLists ==
    [][/\ (/\ Len(checks') = Len(checks) + 1
           /\ checks'[Len(checks')].result.status = "ERROR")
          => (issues' = issues /\ warnings' = warnings)
       /\ (/\ cpc' = "idle"
           /\ report'.checks # <<>>
           /\ \A i \in 1..Len(report'.checks) :
                  report'.checks[i].result.status \in {"OK", "ERROR"})
          => report'.summary.status = "OK"]_vars

\* the number of subjects the registry lists by default
SubjectCount == ListingLength(ListedSubjects(reg, order, FALSE), anon)

\* the step just taken is the subject_count check, and it did not end in ERROR
CountedSubjects ==
    /\ Len(checks) = 1
    /\ Len(checks') = 2
    /\ checks'[2].result.status # "ERROR"

\* C15: the subject_count check reports OK and records nothing when the count
\* is at most 1000, reports WARNING and records one warning when it is above
\* 1000 and at most 5000, and reports CRITICAL and records one issue when it
\* is above 5000.
C15_SubjectCountLevels ==
    [][CountedSubjects =>
        /\ checks'[2].result.count = SubjectCount
        /\ SubjectCount <= HighSubjectCount =>
            /\ checks'[2].result.status = "OK"
            /\ issues' = issues /\ warnings' = warnings
        /\ (SubjectCount > HighSubjectCount /\ SubjectCount <= VeryHighSubjectCount) =>
            /\ checks'[2].result.status = "WARNING"
            /\ issues' = issues /\ Len(warnings') = Len(warnings) + 1
        /\ SubjectCount > VeryHighSubjectCount =>
            /\ checks'[2].result.status = "CRITICAL"
            /\ Len(issues') = Len(issues) + 1 /\ warnings' = warnings]_vars

\* the subjects of the default listing, in the registry's order
Listed == ListedSubjects(reg, order, FALSE)

\* the subjects of what a check appended to a list
Added(after, before) ==
    [i \in 1..(Len(after) - Len(before)) |-> after[Len(before) + i].subject]

\* the listed subjects whose version list is fetched (f says which requests
\* fail) and holds more than 100 versions, or more than 50 and at most 100
WithTooManyVersions(f) ==
    LET Test(s) == f[s] = "ok" /\ reg[s].nver > TooManyVersions
    IN  SelectSeq(Listed, Test)

WithManyVersions(f) ==
    LET Test(s) == /\ f[s] = "ok"
                   /\ reg[s].nver > ManyVersions
                   /\ reg[s].nver <= TooManyVersions
    IN  SelectSeq(Listed, Test)

\* the whole check, from the state it is called in
ScansListed ==
    cpc = "version_explosion" =>
        \A f \in Faults :
            LET x == check_version_explosion(reg, order, anon, issues, warnings,
                                             "ok", f)
            IN  /\ x.check.status # "ERROR"
                /\ SubSeq(x.issues, 1, Len(issues)) = issues
                /\ SubSeq(x.warnings, 1, Len(warnings)) = warnings
                /\ Added(x.issues, issues) = WithTooManyVersions(f)
                /\ Added(x.warnings, warnings) = WithManyVersions(f)

\* the check request by request: the loop starts on the listing, each turn
\* takes the first subject left off the list and records what its version
\* list tells, if it was fetched, and the check returns when none is left
ScansOneByOne ==
    /\ (cpc = "version_explosion" /\ cpc' = "version_explosion_scan") =>
        scan'.rest \in {Listed, <<>>}
    /\ (cpc = "version_explosion_scan" /\ cpc' = cpc) =>
        LET s == Head(scan.rest)
            n == reg[s].nver
            fetched == scan'.faulty = scan.faulty
        IN  /\ scan'.rest = Tail(scan.rest)
            /\ issues' = IF fetched /\ n > TooManyVersions
                         THEN Append(issues, Finding("versions", s, n))
                         ELSE issues
            /\ warnings' = IF fetched /\ n > ManyVersions /\ n <= TooManyVersions
                           THEN Append(warnings, Finding("versions", s, n))
                           ELSE warnings
    /\ (cpc = "version_explosion_scan" /\ cpc' = "large_schemas") =>
        scan.rest = <<>>

\* C16: the version_explosion check scans every listed subject: a subject
\* whose version list is fetched records an issue when it has more than 100
\* versions, a warning when it has more than 50 and at most 100, and nothing
\* otherwise; a timeout or other failure on one subject skips that subject
\* only, the subjects after it are still evaluated.
C16_ScansEverySubject ==
    /\ []ScansListed
    /\ [][ScansOneByOne]_vars

\* the request for the first listed subject, which has too many versions,
\* failed, and the subject after it got its warning
C16_Witness ==
    /\ cpc = "large_schemas"
    /\ Len(Listed) >= 2
    /\ Listed[1] = OrdersValue /\ reg[OrdersValue].nver > TooManyVersions
    /\ Listed[2] = OrdersKey /\ reg[OrdersKey].nver > ManyVersions
    /\ \A i \in 1..Len(issues) : issues[i].subject # OrdersValue
    /\ \E i \in 1..Len(warnings) : warnings[i].subject = OrdersKey
    /\ checks[3].result.status = "WARNING"

\* C28: the status of the version_explosion check depends on its own
\* findings only: CRITICAL iff a scanned subject has more than 100 versions,
\* WARNING iff one has more than 50 and none has more than 100, OK otherwise,
\* whatever the earlier checks have recorded.
C28_StatusFromOwnFindings ==
    cpc = "version_explosion" =>
        \A f \in Faults :
            check_version_explosion(reg, order, anon, issues, warnings,
                                    "ok", f).check.status
                = IF WithTooManyVersions(f) # <<>> THEN "CRITICAL"
                  ELSE IF WithManyVersions(f) # <<>> THEN "WARNING"
                  ELSE "OK"

\* the subjects visible only with deleted=true
SoftDeletedSubjects == {s \in Subjects : reg[s].st = "soft"}

\* the step just taken is the soft_deleted check, and it did not end in ERROR
CountedSoftDeleted ==
    /\ Len(checks) = 5
    /\ Len(checks') = 6
    /\ checks'[6].result.status # "ERROR"

\* C17: the soft_deleted check counts the soft-deleted subjects only: with no
\* soft-deleted subject in the registry (active ones or none) it reports OK
\* and records no warning; with some it reports WARNING with their count and
\* at most the first 10 names.
C17_CountsSoftDeletedOnly ==
    [][CountedSoftDeleted =>
        /\ SoftDeletedSubjects = {} =>
            /\ checks'[6].result.status = "OK"
            /\ warnings' = warnings
        /\ SoftDeletedSubjects # {} =>
            /\ checks'[6].result.status = "WARNING"
            /\ checks'[6].result.count = Cardinality(SoftDeletedSubjects)
            /\ Len(checks'[6].result.subjects) <= SoftDeletedShown
            /\ Len(warnings') = Len(warnings) + 1]_vars

\* the references of s whose subject has no version list to fetch (404), when
\* the requests that look them up have outcome g
MissingRefs(s, g) ==
    LET Test(ref) == g = "ok" /\ reg[ref].st # "active"
    IN  SelectSeq(reg[s].refs, Test)

\* what the orphaned_refs check has to report: for each of the first 50 listed
\* subjects whose latest version is fetched, its missing references
ExpectedOrphans(f, g) ==
    LET F[i \in 0..Len(Listed)] ==
            IF i = 0 THEN <<>>
            ELSE LET s == Listed[i]
                     missing == MissingRefs(s, g)
                 IN  IF anon.lead + i <= ReferenceSample /\ f[s] = "ok"
                     THEN F[i - 1] \o [j \in 1..Len(missing) |-> <<s, missing[j]>>]
                     ELSE F[i - 1]
    IN  F[Len(Listed)]

\* C18: in the orphaned_refs check, with the listing answered, each reference
\* of the latest version of each of the first 50 listed subjects whose
\* subject answers 404 records one issue and makes the check, and the report,
\* CRITICAL; when every reference of every sampled subject resolves, the
\* check is OK and records nothing.
C18_OrphanedReferences ==
    /\ cpc = "orphaned_refs" =>
        \A f \in Faults, g \in Outcomes :
            LET x == check_orphaned_references(reg, order, anon, issues,
                                               warnings, "ok", f, g)
                expected == ExpectedOrphans(f, g)
                added == [i \in 1..(Len(x.issues) - Len(issues)) |->
                            <<x.issues[Len(issues) + i].subject,
                              x.issues[Len(issues) + i].missing_ref>>]
            IN  /\ SubSeq(x.issues, 1, Len(issues)) = issues
                /\ added = expected
                /\ x.warnings = warnings
                /\ x.check.status = IF expected # <<>> THEN "CRITICAL" ELSE "OK"
    /\ (Reported /\ StatusOf("orphaned_refs") = "CRITICAL") =>
        report.summary.status = "CRITICAL"

\* OrdersKey refers to UsersValue, which is soft-deleted or gone; nothing
\* else recorded an issue
C18_Witness ==
    /\ Reported
    /\ StatusOf("orphaned_refs") = "CRITICAL"
    /\ Len(issues) = 1
    /\ issues[1].subject = OrdersKey
    /\ issues[1].missing_ref = UsersValue
    /\ reg[UsersValue].st # "active"
    /\ report.summary.status = "CRITICAL"

\* C1: in the report check_all returns, summary.status is CRITICAL iff the
\* issues list is non-empty, WARNING iff the issues list is empty and the
\* warnings list is not, and OK otherwise.
C1_StatusFromLists ==
    Reported =>
        /\ report.summary.status \in {"CRITICAL", "WARNING", "OK"}
        /\ report.summary.status = "CRITICAL" <=> issues # <<>>
        /\ report.summary.status = "WARNING" <=> (issues = <<>> /\ warnings # <<>>)
        /\ report.summary.status = "OK" <=> (issues = <<>> /\ warnings = <<>>)
        /\ report.summary.total_issues = Len(issues)
        /\ report.summary.total_warnings = Len(warnings)

C1_Witness ==
    /\ Reported
    /\ report.summary.status = "CRITICAL"
    /\ issues # <<>>
    /\ warnings # <<>>
    /\ StatusOf("connectivity") = "OK"
    /\ StatusOf("large_schemas") = "ERROR"

-----------------------------------------------------------------------------
(* Properties of check_all called again on the same checker (SpecRepeat) *)

\* the findings of the current run: what it has appended to the lists since
\* the call before it returned
OwnIssues == SubSeq(issues, earlier.summary.total_issues + 1, Len(issues))
OwnWarnings == SubSeq(warnings, earlier.summary.total_warnings + 1, Len(warnings))

\* C27: a report is scoped to one check_all call.  The lists of a report are
\* the checker's own lists (issues, warnings).  When check_all has been called
\* again on the same checker, the lists of the earlier report are as long as
\* its totals say, and the totals and the status of the new report are those
\* of the findings of the new run alone.
C27_ReportScoped ==
    earlier # NoReport =>
        /\ Len(issues) = earlier.summary.total_issues
        /\ Len(warnings) = earlier.summary.total_warnings
        /\ (cpc = "idle" /\ report # NoReport) =>
                report.summary = Summary(OwnIssues, OwnWarnings)

-----------------------------------------------------------------------------
(* Properties of purge_soft_deleted beside another client (SpecConcurrent) *)

\* the i-th DELETE of the purge deleted its subject for good, and the DELETE
\* before it, the soft one of the same hard_delete_subject call, found the
\* subject active: the registry answers 200 to it for an active subject only
PurgedActive(i) ==
    /\ dels[i].permanent /\ ~dels[i].exc /\ dels[i].status = 200
    /\ ~dels[i - 1].permanent /\ ~dels[i - 1].exc /\ dels[i - 1].status = 200
    /\ dels[i - 1].subject = dels[i].subject

\* C29: whatever another client does between the requests of the purge,
\* purge_soft_deleted never permanently deletes a subject that is active when
\* the purge issues its delete requests for it.
C29_NeverPurgesActive ==
    call.op = "purge_soft_deleted" =>
        \A i \in 2..Len(dels) : ~PurgedActive(i)

-----------------------------------------------------------------------------
(* Properties of all the operations (SpecEngine) *)

\* the subjects the current call of the purger may delete: those given as
\* input, for purge_soft_deleted those soft-deleted when it was called (the
\* difference of its two listings), and none for the other operations
Targets ==
    IF call.op \in {"soft_delete_subject", "hard_delete_subject",
                    "delete_subject_version",
                    "bulk_soft_delete", "bulk_hard_delete"}
    THEN Range(call.subjects)
    ELSE IF call.op = "purge_soft_deleted"
    THEN {s \in Subjects : reg0[s].st = "soft"}
    ELSE {}

\* C30: deletion operations touch only their targets.  Every DELETE of the
\* current call is for one of its targets, and every other subject is in the
\* registry as it was when the call started; get_all_subjects,
\* get_subject_details, get_subjects_by_filter and check_all have no targets:
\* they issue no DELETE and leave the registry as it was.
C30_TouchesOnlyTargets ==
    /\ \A i \in 1..Len(dels) : dels[i].subject \in Targets
    /\ \A s \in Subjects \ Targets : reg[s] = reg0[s]
    /\ runs > 0 => (dels = <<>> /\ reg = reg0)

\* bulk_hard_delete of OrdersValue has removed it and left the soft-deleted
\* UsersValue as it was
C30_Witness ==
    /\ pc = "idle"
    /\ call.op = "bulk_hard_delete"
    /\ call.subjects = <<OrdersValue>>
    /\ reg0[OrdersValue].st = "active"
    /\ reg[OrdersValue].st = "absent"
    /\ reg[UsersValue] = reg0[UsersValue] /\ reg[UsersValue].st = "soft"

====
